---------------------------- MODULE Spec2Model ----------------------------
(***************************************************************************)
(* Model of scripts/deduplicate.py: the identifier normalizers, the record *)
(* unifier (load_records), the DeduplicationEngine (add_record and its     *)
(* helpers) and the two post-passes resolve_preprints and                  *)
(* get_deduplicated_records.                                               *)
(*                                                                         *)
(* A Python str is modelled as a sequence of one-character strings, so     *)
(* that strip(), lower(), startswith() and the regular expressions act     *)
(* character by character as they do in the source.                        *)
(***************************************************************************)
EXTENDS Integers, Sequences, FiniteSets, TLC

\* ------------------------------------------------------------------------
\* Bounds of the model
\* ------------------------------------------------------------------------

\* Number of add_record calls made on one engine.
MaxRecords == 3

\* ------------------------------------------------------------------------
\* Characters and str methods
\* ------------------------------------------------------------------------

UpperLetters == <<"A","B","C","D","E","F","G","H","I","J","K","L","M",
                  "N","O","P","Q","R","S","T","U","V","W","X","Y","Z">>

LowerLetters == <<"a","b","c","d","e","f","g","h","i","j","k","l","m",
                  "n","o","p","q","r","s","t","u","v","w","x","y","z">>

Digits == {"0","1","2","3","4","5","6","7","8","9"}

\* Characters str.strip() removes and the regex class \s matches.
Whitespace == {" ", "\t", "\n"}

\* The precomposed letters e-acute (U+00E9) and E-acute (U+00C9) and the
\* combining acute accent (U+0301): the pairs of the model alphabet that NFC
\* composes.
EAcute == "e_acute"
UpperEAcute == "E_acute"
CombiningAcute == "combining_acute"

UpperSet == {UpperLetters[i] : i \in 1..26}
LowerSet == {LowerLetters[i] : i \in 1..26}

\* str.lower() of one upper-case letter.
LowerOf == [c \in UpperSet |->
               LowerLetters[CHOOSE i \in 1..26 : UpperLetters[i] = c]]

IsUpper(c) == c \in UpperSet

IsLetter(c) == c \in UpperSet \cup LowerSet \cup {EAcute, UpperEAcute}

\* The regex class \w: alphanumerics and the underscore.
IsWord(c) == IsLetter(c) \/ c \in Digits \/ c = "_"

LowerChar(c) == IF IsUpper(c) THEN LowerOf[c]
                ELSE IF c = UpperEAcute THEN EAcute ELSE c

\* str.lower()
Lower(s) == [i \in 1..Len(s) |-> LowerChar(s[i])]

RECURSIVE LStrip(_)
LStrip(s) == IF s # <<>> /\ Head(s) \in Whitespace THEN LStrip(Tail(s)) ELSE s

RECURSIVE RStrip(_)
RStrip(s) == IF s # <<>> /\ s[Len(s)] \in Whitespace
             THEN RStrip(SubSeq(s, 1, Len(s) - 1))
             ELSE s

\* str.strip()
Strip(s) == RStrip(LStrip(s))

\* str.startswith(prefix)
StartsWith(s, prefix) == /\ Len(s) >= Len(prefix)
                         /\ SubSeq(s, 1, Len(prefix)) = prefix

\* ------------------------------------------------------------------------
\* Normalization helpers
\* ------------------------------------------------------------------------

\* "10.1101/" (bioRxiv / medRxiv) and "10.48550/arxiv" (arXiv)
PREPRINT_DOI_PREFIXES ==
    << <<"1","0",".","1","1","0","1","/">>,
       <<"1","0",".","4","8","5","5","0","/","a","r","x","i","v">> >>

\* "https://doi.org/", "http://doi.org/", "https://dx.doi.org/",
\* "http://dx.doi.org/", in the order the loop tries them.
DOI_URL_PREFIXES ==
    << <<"h","t","t","p","s",":","/","/","d","o","i",".","o","r","g","/">>,
       <<"h","t","t","p",":","/","/","d","o","i",".","o","r","g","/">>,
       <<"h","t","t","p","s",":","/","/","d","x",".","d","o","i",".","o","r","g","/">>,
       <<"h","t","t","p",":","/","/","d","x",".","d","o","i",".","o","r","g","/">> >>

normalize_doi(doi) ==
    IF doi = <<>> THEN <<>>
    ELSE LET d == Strip(doi)
             lowered == Lower(d)
             hits == {k \in 1..Len(DOI_URL_PREFIXES) :
                         StartsWith(lowered, DOI_URL_PREFIXES[k])}
             first == CHOOSE k \in hits : \A j \in hits : k <= j
             cut == IF hits = {} THEN d
                    ELSE SubSeq(d, Len(DOI_URL_PREFIXES[first]) + 1, Len(d))
         IN  Strip(Lower(cut))

\* re.sub(r"v\d+$", "", s): the suffix "v" + one or more digits is removed.
StripVersion(s) ==
    LET starts == {i \in 1..(Len(s) - 1) :
                      /\ s[i] = "v"
                      /\ \A j \in (i + 1)..Len(s) : s[j] \in Digits}
    IN  IF starts = {} THEN s
        ELSE SubSeq(s, 1, (CHOOSE i \in starts : \A j \in starts : i <= j) - 1)

normalize_arxiv_id(arxiv_id) ==
    IF arxiv_id = <<>> THEN <<>>
    ELSE Lower(StripVersion(Strip(arxiv_id)))

\* unicodedata.normalize("NFC", s) on the model alphabet: "e" or "E"
\* followed by the combining acute accent composes to the precomposed letter.
RECURSIVE NFC(_)
NFC(s) ==
    LET pairs == {i \in 1..(Len(s) - 1) :
                     s[i] \in {"e", "E"} /\ s[i + 1] = CombiningAcute}
        i == CHOOSE k \in pairs : \A j \in pairs : k <= j
    IN  IF pairs = {} THEN s
        ELSE SubSeq(s, 1, i - 1)
             \o <<IF s[i] = "e" THEN EAcute ELSE UpperEAcute>>
             \o NFC(SubSeq(s, i + 2, Len(s)))

\* re.sub(r"<[^>]+>", "", s): scanning left to right, a "<" followed by at
\* least one character other than ">" and then a ">" is removed with all
\* it spans; a "<" with no such continuation is kept.
RECURSIVE StripTags(_)
StripTags(s) ==
    LET Closers(i) == {j \in (i + 1)..Len(s) : s[j] = ">"}
        starts == {i \in 1..Len(s) :
                      /\ s[i] = "<"
                      /\ Closers(i) # {}
                      /\ (i + 1) \notin Closers(i)}
        open == CHOOSE i \in starts : \A k \in starts : i <= k
        close == CHOOSE j \in Closers(open) : \A k \in Closers(open) : j <= k
    IN  IF starts = {} THEN s
        ELSE SubSeq(s, 1, open - 1) \o StripTags(SubSeq(s, close + 1, Len(s)))

\* re.sub(r"[^\w\s]", "", s)
RemovePunct(s) == SelectSeq(s, LAMBDA c : IsWord(c) \/ c \in Whitespace)

\* re.sub(r"\s+", " ", s)
RECURSIVE CollapseSpaces(_)
CollapseSpaces(s) ==
    LET spaces == {i \in 1..Len(s) : s[i] \in Whitespace}
        i == CHOOSE k \in spaces : \A j \in spaces : k <= j
    IN  IF spaces = {} THEN s
        ELSE SubSeq(s, 1, i - 1) \o <<" ">>
             \o CollapseSpaces(LStrip(SubSeq(s, i, Len(s))))

\* normalize_title with the characters removed before the title is put in
\* lower case, by a pattern that keeps lower-case letters only.
normalize_title_lower_last(title) ==
    IF title = <<>> THEN <<>>
    ELSE Strip(CollapseSpaces(Lower(
             SelectSeq(StripTags(NFC(title)),
                       LAMBDA c : (IsWord(c) /\ LowerChar(c) = c)
                                      \/ c \in Whitespace))))

normalize_title(title) ==
    IF title = <<>> THEN <<>>
    ELSE Strip(CollapseSpaces(RemovePunct(StripTags(Lower(NFC(title))))))

is_preprint_doi(doi) ==
    LET ndoi == normalize_doi(doi)
    IN  \E k \in 1..Len(PREPRINT_DOI_PREFIXES) :
            StartsWith(ndoi, PREPRINT_DOI_PREFIXES[k])

\* ------------------------------------------------------------------------
\* Record loading
\* ------------------------------------------------------------------------

\* One record of load_records' output, built from raw record r of export
\* db_name.  A raw field that is missing, None or "" is the empty sequence.
\* Of the fields the engine carries along without reading them, year stands
\* for the ones copied from the representative (authors, year, venue, date,
\* url); s2_id, scopus_id and epmc_id, which no output holds, are left out.
Unify(db_name, r) ==
    [source_db           |-> db_name,
     title_original      |-> Strip(r.title),
     title_normalized    |-> normalize_title(r.title),
     doi_original        |-> Strip(r.doi),
     doi_normalized      |-> normalize_doi(r.doi),
     pmid                |-> IF r.pmid # <<>> THEN Strip(r.pmid) ELSE <<>>,
     arxiv_id_original   |-> IF r.arxiv_id # <<>> THEN Strip(r.arxiv_id) ELSE <<>>,
     arxiv_id_normalized |-> normalize_arxiv_id(r.arxiv_id),
     abstract            |-> Strip(r.abstract),
     year                |-> Strip(r.year)]

\* Raw field values of the exports the model feeds to the engine.
DoiPreprint  == <<"1","0",".","1","1","0","1","/","a">>
DoiPublished == <<"1","0",".","2","/","b">>
DoiPublishedUrl ==
    <<"H","t","t","p","s",":","/","/","d","o","i",".","o","r","g","/",
      "1","0",".","2","/","B"," ">>
DoiUrlOnly ==
    <<"h","t","t","p","s",":","/","/","d","o","i",".","o","r","g","/">>
TitleFoo       == <<"F","o","o">>
TitleFooMarkup == <<"<","i",">","f","o","o","<","/","i",">","!">>
TitleBar       == <<"B","a","r">>
TitleBaz       == <<"B","a","z">>
TitleBarLower  == <<"b","a","r">>
TitlePunct     == <<"?","!">>
PmidA          == <<"7">>
PmidB          == <<"8">>
ArxivV1        == <<"2","v","1">>
ArxivBare      == <<"2">>
AbstractShort  == <<"a">>
AbstractMid    == <<"a","b">>
AbstractLong   == <<"a","b","c">>

\* A title one character longer than the 100 characters the log keeps.
TitleLong      == [i \in 1..101 |-> IF i = 101 THEN "y" ELSE "x"]

\* The year of the k-th record of the exports.
Year(k) ==
    LET digit == <<"0","1","2","3","4","5","6","7","8","9">>
    IN  <<"2", "0", digit[(k \div 10) + 1], digit[(k % 10) + 1]>>

Raw(title, doi, pmid, arxiv_id, abstract, year) ==
    [title |-> title, doi |-> doi, pmid |-> pmid, arxiv_id |-> arxiv_id,
     abstract |-> abstract, year |-> year]

\* The unified records of the exports: what main() passes to add_record.
Records ==
    { Unify("pubmed",
            Raw(TitleFoo, DoiPreprint, <<>>, <<>>, AbstractShort, Year(1))),
      Unify("scopus",
            Raw(TitleFooMarkup, DoiPublishedUrl, <<>>, <<>>, <<>>, Year(2))),
      Unify("semantic_scholar",
            Raw(TitleBar, DoiPublished, PmidA, <<>>, AbstractLong, Year(3))),
      Unify("arxiv",
            Raw(TitleBar, DoiPreprint, PmidA, ArxivV1, AbstractShort, Year(4))),
      Unify("pubmed",
            Raw(TitleBaz, <<>>, PmidA, <<>>, <<>>, Year(5))),
      Unify("arxiv",
            Raw(TitleFoo, <<>>, <<>>, ArxivBare, AbstractMid, Year(6))),
      Unify("google_scholar",
            Raw(TitlePunct, <<>>, <<>>, <<>>, <<>>, Year(7))),
      Unify("google_scholar",
            Raw(TitleBar, <<>>, <<>>, <<>>, <<>>, Year(8))),
      Unify("biorxiv_medrxiv",
            Raw(<<>>, DoiUrlOnly, PmidB, <<>>, AbstractMid, Year(9))),
      Unify("springernature",
            Raw(TitleLong, DoiPreprint, PmidB, <<>>, <<>>, Year(10))),
      Unify("arxiv",
            Raw(TitleBarLower, <<>>, <<>>, ArxivBare, AbstractMid, Year(11))),
      Unify("other",
            Raw(<<>>, <<>>, <<>>, <<>>, <<>>, <<>>)) }

\* ------------------------------------------------------------------------
\* Deduplication engine
\* ------------------------------------------------------------------------

VARIABLES
    clusters,          \* self.clusters: insertion-ordered dict, as a sequence
                       \* of [cid, records] items
    next_cluster_id,   \* self.next_cluster_id
    doi_index,         \* self.doi_index:   normalized DOI   -> cluster id
    pmid_index,        \* self.pmid_index:  PMID             -> cluster id
    arxiv_index,       \* self.arxiv_index: normalized arXiv -> cluster id
    title_index,       \* self.title_index: normalized title -> cluster id
    log,               \* self.log
    processed,         \* history: the records passed to add_record, in order
    ret,               \* the value returned by the last call on the engine
    previous,          \* history: the input, the final state and the last
                       \* returned value of the engine this process ran
                       \* before the current one
    call,              \* the calls of a normalization helper: the
                       \* function, the arguments it is to be called on
                       \* and the values it returned so far
    retry,             \* one call of the enrichment script's retry_get:
                       \* its arguments, its loop variable, the requests
                       \* and waits so far and how it ended
    enrichment,        \* one run of the enrichment script's main(): its
                       \* options, its position, the records in memory and
                       \* the files written
    loaded,            \* one run of the deduplication script's main(): the
                       \* records it loaded from the export files
    set_order          \* the process's str hashing, as far as it has shown:
                       \* for each set built from the clusters as they are,
                       \* the order in which it iterates

vars == <<clusters, next_cluster_id, doi_index, pmid_index, arxiv_index,
          title_index, log, processed, ret, previous, call, retry,
          enrichment, loaded, set_order>>

engine == <<clusters, next_cluster_id, doi_index, pmid_index, arxiv_index,
            title_index, log>>

\* Python's None where a cluster id is expected.
None == -1

\* s[:100]
TITLE_LOG_LEN == 100
Truncate(s, n) == SubSeq(s, 1, IF Len(s) < n THEN Len(s) ELSE n)

\* An empty dict.
EmptyDict == [k \in {} |-> None]

\* dict.get(key): the value, or None.
Get(index, key) == IF key \in DOMAIN index THEN index[key] ELSE None

\* dict.setdefault(key, value)
SetDefault(index, key, value) ==
    IF key \in DOMAIN index THEN index
    ELSE [k \in DOMAIN index \cup {key} |->
             IF k = key THEN value ELSE index[k]]

\* self.clusters[cid]
ClusterRecords(cs, cid) ==
    cs[CHOOSE i \in 1..Len(cs) : cs[i].cid = cid].records

ClusterIds(cs) == {cs[i].cid : i \in 1..Len(cs)}

\* No normalization helper is called on its own.
NoCall == [fn |-> "", args |-> <<>>, results |-> <<>>]

\* The state of the scripts' runs: no script is run.
scripts == <<retry, enrichment, loaded>>

NotLoaded == [pc |-> "idle"]

NoRetry == [status |-> "idle"]

NoEnrichment == [pc |-> "idle"]

Init ==
    /\ clusters = <<>>
    /\ next_cluster_id = 0
    /\ doi_index = EmptyDict
    /\ pmid_index = EmptyDict
    /\ arxiv_index = EmptyDict
    /\ title_index = EmptyDict
    /\ log = <<>>
    /\ processed = <<>>
    /\ set_order = EmptyDict
    /\ loaded = NotLoaded
    /\ ret = [op |-> "__init__", value |-> <<>>]
    /\ previous = [done |-> FALSE, processed |-> <<>>, engine |-> <<>>,
                   ret |-> [op |-> "__init__", value |-> <<>>]]
    /\ call = NoCall
    /\ retry = NoRetry
    /\ enrichment = NoEnrichment

\* ------------------------------------------------------------------------
\* The sets of a cluster's identifiers and the process's str hashing
\* ------------------------------------------------------------------------

\* [r[field] for r in records if r[field]]
NonEmpty(records, field) ==
    LET vals == [i \in 1..Len(records) |-> records[i][field]]
    IN  SelectSeq(vals, LAMBDA v : v # <<>>)

Range(list) == {list[i] : i \in 1..Len(list)}

\* set(r[field] for r in records if r[field]) is built from
\* NonEmpty(records, field), its values in insertion order; its iteration
\* order is a function of these and of the process's hashing.  The sets
\* whose order the hashing decides are those of two elements or more.
Ordered(inserted) == Cardinality(Range(inserted)) > 1

\* The sets get_deduplicated_records builds for the clusters cs.
BuiltSets(cs) ==
    {q \in {NonEmpty(cs[i].records, field) :
               i \in 1..Len(cs),
               field \in {"doi_original", "pmid", "arxiv_id_original"}} :
        Ordered(q)}

\* The orders shown that the clusters cs still give a set for.  The order of
\* a set that no cluster gives any more is dropped: were the same set built
\* again, any order would be taken for it.
StillBuilt(shown, cs) ==
    IF shown = EmptyDict THEN shown
    ELSE [q \in DOMAIN shown \cap BuiltSets(cs) |-> shown[q]]

\* Mutant of Truthy: the test "is not None" in place of truthiness, which
\* the empty str passes.
TruthyNotNone(key) == TRUE

\* The truth value of a str in "if record[...]:": the empty str is false.
Truthy(key) == key # <<>>

\* Mutant of RegisterKey: index[key] = cluster_id in place of setdefault.
RegisterKeyOverwrite(index, key, cluster_id) ==
    IF Truthy(key)
    THEN [k \in DOMAIN index \cup {key} |->
             IF k = key THEN cluster_id ELSE index[k]]
    ELSE index

\* Mutant of RegisterKey: nothing is registered.
RegisterKeyNever(index, key, cluster_id) == index

\* One guarded statement of _register_indexes:
\*     if key: index.setdefault(key, cluster_id)
RegisterKey(index, key, cluster_id) ==
    IF Truthy(key) THEN SetDefault(index, key, cluster_id) ELSE index

\* One step of _find_cluster: the lookup of one key in its index.
Lookup(index, key) == IF Truthy(key) THEN Get(index, key) ELSE None

\* Mutant of FindCluster: the PMID is looked up before the DOI.
FindClusterPmidFirst(di, pi, ai, ti, record) ==
    IF Lookup(pi, record.pmid) # None
    THEN [cid |-> Lookup(pi, record.pmid),
          reason |-> [kind |-> "PMID match", value |-> record.pmid]]
    ELSE IF Lookup(di, record.doi_normalized) # None
    THEN [cid |-> Lookup(di, record.doi_normalized),
          reason |-> [kind |-> "DOI match", value |-> record.doi_normalized]]
    ELSE IF Lookup(ai, record.arxiv_id_normalized) # None
    THEN [cid |-> Lookup(ai, record.arxiv_id_normalized),
          reason |-> [kind |-> "arXiv ID match",
                      value |-> record.arxiv_id_normalized]]
    ELSE IF Lookup(ti, record.title_normalized) # None
    THEN [cid |-> Lookup(ti, record.title_normalized),
          reason |-> [kind |-> "Exact title match", value |-> <<>>]]
    ELSE [cid |-> None, reason |-> [kind |-> "", value |-> <<>>]]

\* Mutant of FindCluster: the PMID step is missing.
FindClusterNoPmid(di, pi, ai, ti, record) ==
    IF Lookup(di, record.doi_normalized) # None
    THEN [cid |-> Lookup(di, record.doi_normalized),
          reason |-> [kind |-> "DOI match", value |-> record.doi_normalized]]
    ELSE IF Lookup(ai, record.arxiv_id_normalized) # None
    THEN [cid |-> Lookup(ai, record.arxiv_id_normalized),
          reason |-> [kind |-> "arXiv ID match",
                      value |-> record.arxiv_id_normalized]]
    ELSE IF Lookup(ti, record.title_normalized) # None
    THEN [cid |-> Lookup(ti, record.title_normalized),
          reason |-> [kind |-> "Exact title match", value |-> <<>>]]
    ELSE [cid |-> None, reason |-> [kind |-> "", value |-> <<>>]]

\* _find_cluster in the state with indexes di, pi, ai, ti: the cluster id
\* (or None) and the reason.
FindCluster(di, pi, ai, ti, record) ==
    IF Lookup(di, record.doi_normalized) # None
    THEN [cid |-> Lookup(di, record.doi_normalized),
          reason |-> [kind |-> "DOI match", value |-> record.doi_normalized]]
    ELSE IF Lookup(pi, record.pmid) # None
    THEN [cid |-> Lookup(pi, record.pmid),
          reason |-> [kind |-> "PMID match", value |-> record.pmid]]
    ELSE IF Lookup(ai, record.arxiv_id_normalized) # None
    THEN [cid |-> Lookup(ai, record.arxiv_id_normalized),
          reason |-> [kind |-> "arXiv ID match",
                      value |-> record.arxiv_id_normalized]]
    ELSE IF Lookup(ti, record.title_normalized) # None
    THEN [cid |-> Lookup(ti, record.title_normalized),
          reason |-> [kind |-> "Exact title match", value |-> <<>>]]
    ELSE [cid |-> None, reason |-> [kind |-> "", value |-> <<>>]]

_find_cluster(record) ==
    FindCluster(doi_index, pmid_index, arxiv_index, title_index, record)

\* Mutant of AppendToCluster: insert(0, record) in place of append(record).
AppendToClusterPrepend(cs, cluster_id, record) ==
    [i \in 1..Len(cs) |->
        IF cs[i].cid = cluster_id
        THEN [cid |-> cs[i].cid, records |-> <<record>> \o cs[i].records]
        ELSE cs[i]]

\* self.clusters[cluster_id].append(record)
AppendToCluster(cs, cluster_id, record) ==
    [i \in 1..Len(cs) |->
        IF cs[i].cid = cluster_id
        THEN [cid |-> cs[i].cid, records |-> Append(cs[i].records, record)]
        ELSE cs[i]]

\* Mutant of MergeEntry: the normalized DOI is logged, not the original.
MergeEntryNormalizedDoi(cs, record, cluster_id, reason) ==
    [action             |-> "MERGE",
     reason             |-> reason,
     cluster_id         |-> cluster_id,
     source_db          |-> record.source_db,
     title              |-> Truncate(record.title_original, TITLE_LOG_LEN),
     doi                |-> record.doi_normalized,
     matched_with_db    |-> ClusterRecords(cs, cluster_id)[1].source_db,
     matched_with_title |->
         Truncate(ClusterRecords(cs, cluster_id)[1].title_original,
                  TITLE_LOG_LEN)]

\* Mutant of MergeEntry: matched_with_db and matched_with_title are taken
\* from the cluster's last member.
MergeEntryLastMember(cs, record, cluster_id, reason) ==
    LET members == ClusterRecords(cs, cluster_id)
    IN  [action             |-> "MERGE",
         reason             |-> reason,
         cluster_id         |-> cluster_id,
         source_db          |-> record.source_db,
         title              |-> Truncate(record.title_original, TITLE_LOG_LEN),
         doi                |-> record.doi_original,
         matched_with_db    |-> members[Len(members) - 1].source_db,
         matched_with_title |->
             Truncate(members[Len(members) - 1].title_original,
                      TITLE_LOG_LEN)]

\* The log entry _merge_into appends; cs is self.clusters after the append.
MergeEntry(cs, record, cluster_id, reason) ==
    [action             |-> "MERGE",
     reason             |-> reason,
     cluster_id         |-> cluster_id,
     source_db          |-> record.source_db,
     title              |-> Truncate(record.title_original, TITLE_LOG_LEN),
     doi                |-> record.doi_original,
     matched_with_db    |-> ClusterRecords(cs, cluster_id)[1].source_db,
     matched_with_title |->
         Truncate(ClusterRecords(cs, cluster_id)[1].title_original,
                  TITLE_LOG_LEN)]

\* The log entry add_record appends for a record that founds a cluster.
NewEntry(record, cid) ==
    [action             |-> "NEW",
     reason             |-> [kind |-> "No match found", value |-> <<>>],
     cluster_id         |-> cid,
     source_db          |-> record.source_db,
     title              |-> Truncate(record.title_original, TITLE_LOG_LEN),
     doi                |-> record.doi_original,
     matched_with_db    |-> "",
     matched_with_title |-> <<>>]

\* _new_cluster: self.clusters[cid] = [record] with cid the counter's value.
NewCluster(cs, cid, record) ==
    IF cid \in ClusterIds(cs)
    THEN [i \in 1..Len(cs) |->
             IF cs[i].cid = cid THEN [cid |-> cid, records |-> <<record>>]
             ELSE cs[i]]
    ELSE Append(cs, [cid |-> cid, records |-> <<record>>])

\* Mutant of NextId: the counter is not incremented.
NextIdSame(n) == n

\* The counter after _new_cluster.
NextId(n) == n + 1

\* _register_indexes(record, cluster_id)
_register_indexes(record, cluster_id) ==
    /\ doi_index' = RegisterKey(doi_index, record.doi_normalized, cluster_id)
    /\ pmid_index' = RegisterKey(pmid_index, record.pmid, cluster_id)
    /\ arxiv_index' =
           RegisterKey(arxiv_index, record.arxiv_id_normalized, cluster_id)
    /\ title_index' =
           RegisterKey(title_index, record.title_normalized, cluster_id)

\* _merge_into(record, cluster_id, reason)
_merge_into(record, cluster_id, reason) ==
    /\ clusters' = AppendToCluster(clusters, cluster_id, record)
    /\ log' = Append(log, MergeEntry(clusters', record, cluster_id, reason))

\* _new_cluster(record)
_new_cluster(record) ==
    /\ clusters' = NewCluster(clusters, next_cluster_id, record)
    /\ next_cluster_id' = NextId(next_cluster_id)

\* add_record(record)
add_record(record) ==
    /\ Len(processed) < MaxRecords
    /\ LET found == _find_cluster(record)
       IN  IF found.cid # None
           THEN /\ _merge_into(record, found.cid, found.reason)
                /\ _register_indexes(record, found.cid)
                /\ UNCHANGED next_cluster_id
           ELSE /\ _new_cluster(record)
                /\ _register_indexes(record, next_cluster_id)
                /\ log' = Append(log, NewEntry(record, next_cluster_id))
    /\ processed' = Append(processed, record)
    /\ ret' = [op |-> "add_record", value |-> <<>>]
    /\ set_order' = StillBuilt(set_order, clusters')
    /\ UNCHANGED <<previous, call, scripts>>

\* main()'s loop: the next record of the exports goes to the engine.
AddRecord ==
    /\ ~previous.done
    /\ \E record \in Records : add_record(record)

\* ------------------------------------------------------------------------
\* resolve_preprints
\* ------------------------------------------------------------------------

PreprintDois(dois) == SelectSeq(dois, LAMBDA d : is_preprint_doi(d))

PublishedDois(dois) ==
    SelectSeq(dois, LAMBDA d : d # <<>> /\ ~is_preprint_doi(d))

\* PreprintLink with the first DOI of any kind in place of the first
\* published one.
PreprintLinkFirstDoi(cid, records) ==
    LET dois == NonEmpty(records, "doi_normalized")
    IN  [cluster_id    |-> cid,
         published_doi |-> dois[1],
         preprint_dois |-> PreprintDois(dois),
         title         |-> Truncate(records[1].title_original, TITLE_LOG_LEN)]

\* PreprintLink with the founding record's title at its full length.
PreprintLinkFullTitle(cid, records) ==
    LET dois == NonEmpty(records, "doi_normalized")
    IN  [cluster_id    |-> cid,
         published_doi |-> PublishedDois(dois)[1],
         preprint_dois |-> PreprintDois(dois),
         title         |-> records[1].title_original]

\* The link resolve_preprints appends for one cluster.
PreprintLink(cid, records) ==
    LET dois == NonEmpty(records, "doi_normalized")
    IN  [cluster_id    |-> cid,
         published_doi |-> PublishedDois(dois)[1],
         preprint_dois |-> PreprintDois(dois),
         title         |-> Truncate(records[1].title_original, TITLE_LOG_LEN)]

\* Whether resolve_preprints appends a link for a cluster.
HasPreprintLink(records) ==
    LET dois == NonEmpty(records, "doi_normalized")
    IN  /\ ~(Len(records) < 2)
        /\ PreprintDois(dois) # <<>>
        /\ PublishedDois(dois) # <<>>

\* The list resolve_preprints returns: the loop over self.clusters.items().
RECURSIVE ResolvePreprints(_)
ResolvePreprints(cs) ==
    IF cs = <<>> THEN <<>>
    ELSE LET rest == ResolvePreprints(SubSeq(cs, 1, Len(cs) - 1))
             last == cs[Len(cs)]
         IN  IF HasPreprintLink(last.records)
             THEN Append(rest, PreprintLink(last.cid, last.records))
             ELSE rest

resolve_preprints ==
    /\ ret' = [op |-> "resolve_preprints", value |-> ResolvePreprints(clusters)]
    /\ UNCHANGED <<engine, processed, previous, call, scripts, set_order>>

\* ------------------------------------------------------------------------
\* get_deduplicated_records
\* ------------------------------------------------------------------------

\* The export names in str order, with the name "other" of an export the
\* priority table does not know: sorted() of source names follows this order.
SourceNames == <<"arxiv", "biorxiv_medrxiv", "google_scholar", "other",
                 "pubmed", "scopus", "semantic_scholar", "springernature">>

UNKNOWN_DB_PRIORITY == 99

\* DB_PRIORITY.get(source_db, 99)
DbPriority(source_db) ==
    CASE source_db = "pubmed"           -> 1
      [] source_db = "scopus"           -> 2
      [] source_db = "semantic_scholar" -> 3
      [] source_db = "biorxiv_medrxiv"  -> 4
      [] source_db = "springernature"   -> 5
      [] source_db = "arxiv"            -> 6
      [] source_db = "google_scholar"   -> 7
      [] OTHER                          -> UNKNOWN_DB_PRIORITY

\* sort_key(r)
sort_key(r) ==
    << IF r.doi_normalized # <<>> /\ ~is_preprint_doi(r.doi_normalized)
       THEN 1 ELSE 2,
       IF r.doi_normalized # <<>> THEN 1 ELSE 2,
       DbPriority(r.source_db),
       0 - Len(r.abstract) >>

\* Tuple comparison a < b of two sort keys.
KeyLess(a, b) ==
    \E i \in 1..4 : a[i] < b[i] /\ \A j \in 1..(i - 1) : a[j] = b[j]

\* Best with the latest, not the earliest, of the records of minimal key.
BestLatest(records) ==
    LET keys == [i \in 1..Len(records) |-> sort_key(records[i])] \o <<>>
        minimal == {i \in 1..Len(records) :
                       \A j \in 1..Len(records) : ~KeyLess(keys[j], keys[i])}
    IN  records[CHOOSE i \in minimal : \A j \in minimal : j <= i]

\* sorted(records, key=sort_key)[0]: the stable sort puts first the earliest
\* record whose key no other record's key is below.  The keys are computed
\* once per record, as sorted() does: \o <<>> makes their list a tuple.
Best(records) ==
    LET keys == [i \in 1..Len(records) |-> sort_key(records[i])] \o <<>>
        minimal == {i \in 1..Len(records) :
                       \A j \in 1..Len(records) : ~KeyLess(keys[j], keys[i])}
    IN  records[CHOOSE i \in minimal : \A j \in minimal : i <= j]

\* max(all_abstracts, key=len): the first abstract of maximal length.
LongestFirst(abstracts) ==
    LET longest == {i \in 1..Len(abstracts) :
                       \A j \in 1..Len(abstracts) :
                           Len(abstracts[j]) <= Len(abstracts[i])}
    IN  abstracts[CHOOSE i \in longest : \A j \in longest : i <= j]

\* best_abstract without the search for a longer abstract among the members.
BestAbstractOfBest(records, best) == best.abstract

\* best_abstract, given the representative best.
BestAbstract(records, best) ==
    IF Len(records) > 1 /\ NonEmpty(records, "abstract") # <<>>
    THEN LongestFirst(NonEmpty(records, "abstract"))
    ELSE best.abstract

\* list(set(...)): the elements in an order the build chooses (str hashing
\* is randomized per process), so every order is a possible outcome.
ListOfSet(S) ==
    {f \in [1..Cardinality(S) -> S] :
        \A i, j \in 1..Cardinality(S) : i # j => f[i] # f[j]}

\* The distinct source names in the order the members were added, unsorted.
SourcesUnsorted(records) ==
    LET names == [i \in 1..Len(records) |-> records[i].source_db]
        firsts == {i \in 1..Len(names) : \A j \in 1..(i - 1) : names[j] # names[i]}
    IN  [k \in 1..Cardinality(firsts) |->
            names[CHOOSE i \in firsts :
                      Cardinality({j \in firsts : j <= i}) = k]]

\* sorted(sources)
SortedSources(records) ==
    SelectSeq(SourceNames,
              LAMBDA n : \E i \in 1..Len(records) : records[i].source_db = n)

FirstOr(list, default) == IF list # <<>> THEN list[1] ELSE default

\* ClusterResult with preprint_doi filled whenever the cluster has a
\* preprint DOI.
ClusterResultAnyPreprint(cid, records, best, best_abstract, dois, pmids, arxiv_ids) ==
    LET preprint_dois == PreprintDois(dois)
        published_dois == PublishedDois(dois)
    IN  [cluster_id       |-> cid,
         title            |-> best.title_original,
         title_normalized |-> best.title_normalized,
         doi              |-> IF published_dois # <<>> THEN published_dois[1]
                              ELSE FirstOr(dois, <<>>),
         preprint_doi     |-> IF preprint_dois # <<>>
                              THEN preprint_dois[1] ELSE <<>>,
         pmid             |-> FirstOr(pmids, <<>>),
         arxiv_id         |-> FirstOr(arxiv_ids, <<>>),
         abstract         |-> best_abstract,
         year             |-> best.year,
         sources          |-> SortedSources(records),
         n_sources        |-> Cardinality({records[i].source_db :
                                              i \in 1..Len(records)}),
         all_dois         |-> dois,
         duplicate_count  |-> Len(records)]

\* The result of one cluster with representative best and abstract
\* best_abstract, for one outcome dois, pmids, arxiv_ids of the three
\* list(set(...)) whose order is read (all_dois, all_pmids, all_arxiv_ids).
ClusterResult(cid, records, best, best_abstract, dois, pmids, arxiv_ids) ==
    LET preprint_dois == PreprintDois(dois)
        published_dois == PublishedDois(dois)
    IN  [cluster_id       |-> cid,
         title            |-> best.title_original,
         title_normalized |-> best.title_normalized,
         doi              |-> IF published_dois # <<>> THEN published_dois[1]
                              ELSE FirstOr(dois, <<>>),
         preprint_doi     |-> IF preprint_dois # <<>> /\ published_dois # <<>>
                              THEN preprint_dois[1] ELSE <<>>,
         pmid             |-> FirstOr(pmids, <<>>),
         arxiv_id         |-> FirstOr(arxiv_ids, <<>>),
         abstract         |-> best_abstract,
         year             |-> best.year,
         sources          |-> SortedSources(records),
         n_sources        |-> Cardinality({records[i].source_db :
                                              i \in 1..Len(records)}),
         all_dois         |-> dois,
         duplicate_count  |-> Len(records)]

\* The orders the hashing can give the sets built: any order for a set not
\* built before in this process, the same order for one built before.
RECURSIVE SetOrders(_, _)
SetOrders(built, shown) ==
    IF built = {} THEN {EmptyDict}
    ELSE LET q == CHOOSE x \in built : TRUE
         IN  {[x \in DOMAIN rest \cup {q} |-> IF x = q THEN o ELSE rest[x]] :
                 rest \in SetOrders(built \ {q}, shown),
                 o \in IF q \in DOMAIN shown THEN {shown[q]}
                       ELSE ListOfSet(Range(q))}

\* list(set(...)) under the orders given.
ListOf(order, inserted) ==
    IF Ordered(inserted) THEN order[inserted]
    ELSE IF inserted = <<>> THEN <<>>
    ELSE <<inserted[1]>>

\* The result of the loop body for one cluster.
ClusterResultOf(order, cid, records) ==
    LET best == Best(records)
        best_abstract == BestAbstract(records, best)
    IN  ClusterResult(cid, records, best, best_abstract,
                      ListOf(order, NonEmpty(records, "doi_original")),
                      ListOf(order, NonEmpty(records, "pmid")),
                      ListOf(order, NonEmpty(records, "arxiv_id_original")))

\* results.sort(key=lambda r: r["cluster_id"]): stable insertion sort.
RECURSIVE SortByClusterId(_)
SortByClusterId(results) ==
    IF results = <<>> THEN <<>>
    ELSE LET sorted == SortByClusterId(SubSeq(results, 1, Len(results) - 1))
             last == results[Len(results)]
             before == SelectSeq(sorted,
                                 LAMBDA r : r.cluster_id <= last.cluster_id)
             after == SelectSeq(sorted,
                                LAMBDA r : r.cluster_id > last.cluster_id)
         IN  before \o <<last>> \o after

\* get_deduplicated_records under the orders given: the list the loop over
\* self.clusters.items() builds, sorted.
DeduplicatedRecords(order, cs) ==
    SortByClusterId([i \in 1..Len(cs) |->
                        ClusterResultOf(order, cs[i].cid, cs[i].records)])

\* The orders shown so far with those of the sets just built.
Shown(shown, order) ==
    [q \in DOMAIN shown \cup DOMAIN order |->
        IF q \in DOMAIN shown THEN shown[q] ELSE order[q]]

\* Mutant of ClustersAfterSorted: records.sort(key=sort_key) in place, which
\* moves the best record to the head of its cluster.
ClustersSortedInPlace(cs) ==
    [i \in 1..Len(cs) |->
        [cid |-> cs[i].cid,
         records |-> <<Best(cs[i].records)>>
                     \o SelectSeq(cs[i].records,
                                  LAMBDA r : r # Best(cs[i].records))]]

\* self.clusters after the loop: sorted(records, key=sort_key) builds a new
\* list and the loop assigns to no member list.
ClustersAfterSorted(cs) == cs

get_deduplicated_records ==
    /\ \E order \in SetOrders(BuiltSets(clusters), set_order) :
           /\ ret' = [op |-> "get_deduplicated_records",
                      value |-> DeduplicatedRecords(order, clusters)]
           /\ set_order' = Shown(set_order, order)
    /\ clusters' = ClustersAfterSorted(clusters)
    /\ UNCHANGED <<next_cluster_id, doi_index, pmid_index, arxiv_index,
                   title_index, log, processed, previous, call, scripts>>

Next ==
    \/ AddRecord
    \/ resolve_preprints
    \/ get_deduplicated_records

Spec == Init /\ [][Next]_vars

\* ------------------------------------------------------------------------
\* A second engine in the same process, fed the same ordered input
\* ------------------------------------------------------------------------

\* Mutant of FreshEngine: the counter is a class attribute, shared by the
\* engines of one process.
FreshEngineSharedCounter ==
    [clusters        |-> <<>>,
     next_cluster_id |-> next_cluster_id,
     doi_index       |-> EmptyDict,
     pmid_index      |-> EmptyDict,
     arxiv_index     |-> EmptyDict,
     title_index     |-> EmptyDict,
     log             |-> <<>>]

\* The attributes __init__ gives a new engine.
FreshEngine ==
    [clusters        |-> <<>>,
     next_cluster_id |-> 0,
     doi_index       |-> EmptyDict,
     pmid_index      |-> EmptyDict,
     arxiv_index     |-> EmptyDict,
     title_index     |-> EmptyDict,
     log             |-> <<>>]

\* DeduplicationEngine() once more: the run so far is kept as `previous`
\* and a new engine takes its place, in the same process or in a new one,
\* whose str hashing has shown nothing yet.
Reconstruct ==
    /\ ~previous.done
    /\ previous' = [done |-> TRUE, processed |-> processed, engine |-> engine,
                    ret |-> ret]
    /\ clusters' = FreshEngine.clusters
    /\ next_cluster_id' = FreshEngine.next_cluster_id
    /\ doi_index' = FreshEngine.doi_index
    /\ pmid_index' = FreshEngine.pmid_index
    /\ arxiv_index' = FreshEngine.arxiv_index
    /\ title_index' = FreshEngine.title_index
    /\ log' = FreshEngine.log
    /\ processed' = <<>>
    /\ ret' = [op |-> "__init__", value |-> <<>>]
    /\ set_order' \in {set_order, EmptyDict}
    /\ UNCHANGED <<call, scripts>>

\* The new engine is fed the previous run's input, record by record.
Replay ==
    /\ previous.done
    /\ Len(processed) < Len(previous.processed)
    /\ add_record(previous.processed[Len(processed) + 1])

NextRerun ==
    \/ AddRecord
    \/ Reconstruct
    \/ Replay

SpecRerun == Init /\ [][NextRerun]_vars

\* The two runs with the call of get_deduplicated_records that ends main()'s
\* use of an engine.
NextRerunOutput ==
    \/ AddRecord
    \/ get_deduplicated_records
    \/ Reconstruct
    \/ Replay

SpecRerunOutput == Init /\ [][NextRerunOutput]_vars

\* ------------------------------------------------------------------------
\* main() of the deduplication script
\* ------------------------------------------------------------------------

\* The keys of EXPORT_FILES in the order of the dict.
EXPORT_FILES == <<"pubmed", "scopus", "semantic_scholar", "arxiv",
                  "biorxiv_medrxiv", "springernature", "google_scholar">>

\* Mutant of db_order: the order of EXPORT_FILES.
db_order_of_export_files == EXPORT_FILES

db_order == <<"pubmed", "scopus", "semantic_scholar", "biorxiv_medrxiv",
              "springernature", "arxiv", "google_scholar">>

\* The contents of the export files: for each key of EXPORT_FILES the list
\* load_records returns, MaxRecords records at most in all.
ExportContents ==
    {[k \in 1..Len(EXPORT_FILES) |->
         SelectSeq(s, LAMBDA r : r.source_db = EXPORT_FILES[k])] :
        s \in UNION {[1..n -> {r \in Records :
                                  \E k \in 1..Len(EXPORT_FILES) :
                                      r.source_db = EXPORT_FILES[k]}] :
                     n \in 0..MaxRecords}}

\* The concatenation of lists.
RECURSIVE Concat(_)
Concat(lists) ==
    IF lists = <<>> THEN <<>>
    ELSE Concat(SubSeq(lists, 1, Len(lists) - 1)) \o lists[Len(lists)]

\* main() to the construction of the engine: the loop over EXPORT_FILES.
Loaded(files) ==
    [pc |-> "loaded",
     all_records |-> Concat(files),
     db_counts |-> [k \in 1..Len(EXPORT_FILES) |-> Len(files[k])],
     total_raw |-> Len(Concat(files)),
     summary |-> [status |-> "none"]]

\* The records in the order the two nested loops over db_order and
\* db_records pass them to add_record.
FeedList(all_records) ==
    Concat([k \in 1..Len(db_order) |->
               SelectSeq(all_records, LAMBDA r : r.source_db = db_order[k])])

InitMain ==
    /\ clusters = <<>>
    /\ next_cluster_id = 0
    /\ doi_index = EmptyDict
    /\ pmid_index = EmptyDict
    /\ arxiv_index = EmptyDict
    /\ title_index = EmptyDict
    /\ log = <<>>
    /\ processed = <<>>
    /\ set_order = EmptyDict
    /\ loaded \in {Loaded(files) : files \in ExportContents}
    /\ ret = [op |-> "__init__", value |-> <<>>]
    /\ previous = [done |-> FALSE, processed |-> <<>>, engine |-> <<>>,
                   ret |-> [op |-> "__init__", value |-> <<>>]]
    /\ call = NoCall
    /\ retry = NoRetry
    /\ enrichment = NoEnrichment

\* One iteration of the inner loop: engine.add_record(r).
MainAddRecord ==
    /\ loaded.pc = "loaded"
    /\ Len(processed) < Len(FeedList(loaded.all_records))
    /\ add_record(FeedList(loaded.all_records)[Len(processed) + 1])

\* deduplicated = engine.get_deduplicated_records(), after the loops.
MainGetDeduplicatedRecords ==
    /\ loaded.pc = "loaded"
    /\ Len(processed) = Len(FeedList(loaded.all_records))
    /\ ret.op \in {"__init__", "add_record"}
    /\ get_deduplicated_records

\* preprint_links = engine.resolve_preprints()
MainResolvePreprints ==
    /\ loaded.pc = "loaded"
    /\ ret.op = "get_deduplicated_records"
    /\ resolve_preprints

\* Mutant of Summary: the branch counting the title matches is missing.
SummaryWithoutTitleMatches(total_raw, deduplicated, engine_log, preprint_links) ==
    LET n_unique == Len(deduplicated)
        merges(kind) ==
            Cardinality({i \in 1..Len(engine_log) :
                            /\ engine_log[i].action = "MERGE"
                            /\ engine_log[i].reason.kind = kind})
    IN  IF total_raw = 0 THEN [status |-> "ZeroDivisionError"]
        ELSE [status |-> "printed",
              total_raw |-> total_raw,
              n_unique |-> n_unique,
              n_duplicates |-> total_raw - n_unique,
              merge_reasons |->
                  [kind \in {"DOI match", "PMID match", "arXiv ID match",
                             "Exact title match"} |->
                      IF kind = "Exact title match" THEN 0 ELSE merges(kind)],
              preprint_links |-> Len(preprint_links),
              source_distribution |->
                  [n \in {deduplicated[k].n_sources :
                              k \in 1..Len(deduplicated)} |->
                      Cardinality({k \in 1..Len(deduplicated) :
                                      deduplicated[k].n_sources = n})]]

\* The statistics of main(): n_unique, n_duplicates, the MERGE entries of
\* the log counted by the head of their reason (a reason never seen counts
\* 0 in the defaultdict), the number of links, and the returned records
\* counted by n_sources.  Printing the share of duplicates divides by
\* total_raw: with no record loaded the ZeroDivisionError ends main.
Summary(total_raw, deduplicated, engine_log, preprint_links) ==
    LET n_unique == Len(deduplicated)
        merges(kind) ==
            Cardinality({i \in 1..Len(engine_log) :
                            /\ engine_log[i].action = "MERGE"
                            /\ engine_log[i].reason.kind = kind})
    IN  IF total_raw = 0 THEN [status |-> "ZeroDivisionError"]
        ELSE [status |-> "printed",
              total_raw |-> total_raw,
              n_unique |-> n_unique,
              n_duplicates |-> total_raw - n_unique,
              merge_reasons |->
                  [kind \in {"DOI match", "PMID match", "arXiv ID match",
                             "Exact title match"} |-> merges(kind)],
              preprint_links |-> Len(preprint_links),
              source_distribution |->
                  [n \in {deduplicated[k].n_sources :
                              k \in 1..Len(deduplicated)} |->
                      Cardinality({k \in 1..Len(deduplicated) :
                                      deduplicated[k].n_sources = n})]]

\* The statistics and the summary, after the two post-passes; deduplicated
\* is the list get_deduplicated_records returned, with the orders its sets
\* had in this process.
MainStatistics ==
    /\ loaded.pc = "loaded"
    /\ loaded.summary.status = "none"
    /\ ret.op = "resolve_preprints"
    /\ \E order \in SetOrders(BuiltSets(clusters), set_order) :
           loaded' = [loaded EXCEPT !.summary =
                         Summary(loaded.total_raw,
                                 DeduplicatedRecords(order, clusters),
                                 log, ret.value)]
    /\ UNCHANGED <<engine, processed, ret, previous, call, retry,
                   enrichment, set_order>>

NextMain ==
    \/ MainAddRecord
    \/ MainGetDeduplicatedRecords
    \/ MainResolvePreprints
    \/ MainStatistics

SpecMain == InitMain /\ [][NextMain]_vars

\* ------------------------------------------------------------------------
\* The normalization helpers called on their own
\* ------------------------------------------------------------------------

MaxPad == 1

\* Runs of at most MaxPad spaces.
Pads == {[i \in 1..n |-> " "] : n \in 0..MaxPad}

\* The ways an export writes a DOI's resolver: none, the four known URL
\* prefixes, and the first of them in capitals.
DoiPrefixForms ==
    {<<>>, <<"H","T","T","P","S",":","/","/","D","O","I",".","O","R","G","/">>}
        \cup {DOI_URL_PREFIXES[k] : k \in 1..Len(DOI_URL_PREFIXES)}

\* What follows the resolver: nothing, a DOI in two letter cases, a DOI
\* after a space, each also behind a second resolver.
DoiBodies ==
    {inner \o body :
        inner \in {<<>>, DOI_URL_PREFIXES[4]},
        body \in {<<>>, <<"1","/","x">>, <<"1","/","X">>, <<" ","1","/","x">>}}

\* The strings normalize_doi is called on.
DoiInputs ==
    {lead \o prefix \o body \o trail :
        lead \in Pads, prefix \in DoiPrefixForms,
        body \in DoiBodies, trail \in Pads}

\* The state before the helper fn is called on each of the arguments.
Calls(fn, args) == [fn |-> fn, args |-> args, results |-> <<>>]

\* The engine is fresh and normalize_doi is to be called on two strings.
InitNormalizeDoi ==
    /\ clusters = <<>>
    /\ next_cluster_id = 0
    /\ doi_index = EmptyDict
    /\ pmid_index = EmptyDict
    /\ arxiv_index = EmptyDict
    /\ title_index = EmptyDict
    /\ log = <<>>
    /\ processed = <<>>
    /\ set_order = EmptyDict
    /\ loaded = NotLoaded
    /\ ret = [op |-> "__init__", value |-> <<>>]
    /\ previous = [done |-> FALSE, processed |-> <<>>, engine |-> <<>>,
                   ret |-> [op |-> "__init__", value |-> <<>>]]
    /\ call \in {Calls("normalize_doi", <<a, b>>) : a, b \in DoiInputs}
    /\ retry = NoRetry
    /\ enrichment = NoEnrichment

\* normalize_doi is called on the next of the arguments.
NormalizeDoi ==
    /\ call.fn = "normalize_doi"
    /\ Len(call.results) < Len(call.args)
    /\ call' = [call EXCEPT !.results =
                    Append(@, normalize_doi(call.args[Len(@) + 1]))]
    /\ UNCHANGED <<engine, processed, ret, previous, scripts, set_order>>

SpecNormalizeDoi == InitNormalizeDoi /\ [][NormalizeDoi]_vars

MaxTitleLen == 3

\* A lower-case and an upper-case letter, a space, the underscore, a
\* punctuation mark and the two angle brackets.
TitleAlphabet == {"a", "B", " ", "_", "!", "<", ">"}

\* The strings normalize_title is called on.
TitleInputs == UNION {[1..n -> TitleAlphabet] : n \in 0..MaxTitleLen}

\* The engine is fresh and normalize_title is to be called on two strings.
InitNormalizeTitle ==
    /\ clusters = <<>>
    /\ next_cluster_id = 0
    /\ doi_index = EmptyDict
    /\ pmid_index = EmptyDict
    /\ arxiv_index = EmptyDict
    /\ title_index = EmptyDict
    /\ log = <<>>
    /\ processed = <<>>
    /\ set_order = EmptyDict
    /\ loaded = NotLoaded
    /\ ret = [op |-> "__init__", value |-> <<>>]
    /\ previous = [done |-> FALSE, processed |-> <<>>, engine |-> <<>>,
                   ret |-> [op |-> "__init__", value |-> <<>>]]
    /\ call \in {Calls("normalize_title", <<a, b>>) : a, b \in TitleInputs}
    /\ retry = NoRetry
    /\ enrichment = NoEnrichment

\* normalize_title is called on the next of the arguments.
NormalizeTitle ==
    /\ call.fn = "normalize_title"
    /\ Len(call.results) < Len(call.args)
    /\ call' = [call EXCEPT !.results =
                    Append(@, normalize_title(call.args[Len(@) + 1]))]
    /\ UNCHANGED <<engine, processed, ret, previous, scripts, set_order>>

SpecNormalizeTitle == InitNormalizeTitle /\ [][NormalizeTitle]_vars

\* Two letters, one of them upper-case, a space and the two angle brackets:
\* the characters of titles made of words, separators and markup.
WordAlphabet == {"a", "B", " ", "<", ">"}

\* The strings normalize_title is called on when words are compared.
WordTitleInputs == UNION {[1..n -> WordAlphabet] : n \in 0..MaxTitleLen}

\* The engine is fresh and normalize_title is to be called on two titles
\* made of words, the shorter one first: comparing two titles does not
\* depend on which of them is normalised first.
InitNormalizeWords ==
    /\ clusters = <<>>
    /\ next_cluster_id = 0
    /\ doi_index = EmptyDict
    /\ pmid_index = EmptyDict
    /\ arxiv_index = EmptyDict
    /\ title_index = EmptyDict
    /\ log = <<>>
    /\ processed = <<>>
    /\ set_order = EmptyDict
    /\ loaded = NotLoaded
    /\ ret = [op |-> "__init__", value |-> <<>>]
    /\ previous = [done |-> FALSE, processed |-> <<>>, engine |-> <<>>,
                   ret |-> [op |-> "__init__", value |-> <<>>]]
    /\ call \in {Calls("normalize_title", pair) :
                     pair \in {p \in WordTitleInputs \X WordTitleInputs :
                                  Len(p[1]) <= Len(p[2])}}
    /\ retry = NoRetry
    /\ enrichment = NoEnrichment

SpecNormalizeWords == InitNormalizeWords /\ [][NormalizeTitle]_vars

\* ------------------------------------------------------------------------
\* Enrichment script: retry_get
\* ------------------------------------------------------------------------

MaxRetries == 3

MaxBaseDelay == 2

\* What one requests.get can come to: a response whose status is 200, 429,
\* 404 or 500, or a requests.exceptions.RequestException.
HttpOutcomes == {"200", "429", "404", "500", "RequestException"}

\* The wait growing by base_delay with every attempt, not doubling.
RateLimitWaitLinear(base_delay, attempt) == base_delay * (attempt + 1)

\* wait = base_delay * (2 ** attempt)
RateLimitWait(base_delay, attempt) == base_delay * (2 ^ attempt)

\* retry_get(url, max_retries=m, base_delay=d) is entered.
RetryGetCall(m, d) ==
    [status      |-> "running",
     max_retries |-> m,
     base_delay  |-> d,
     attempt     |-> 0,
     requests    |-> 0,
     trace       |-> <<>>,
     result      |-> "pending"]

InitRetryGet ==
    /\ clusters = <<>>
    /\ next_cluster_id = 0
    /\ doi_index = EmptyDict
    /\ pmid_index = EmptyDict
    /\ arxiv_index = EmptyDict
    /\ title_index = EmptyDict
    /\ log = <<>>
    /\ processed = <<>>
    /\ set_order = EmptyDict
    /\ loaded = NotLoaded
    /\ ret = [op |-> "__init__", value |-> <<>>]
    /\ previous = [done |-> FALSE, processed |-> <<>>, engine |-> <<>>,
                   ret |-> [op |-> "__init__", value |-> <<>>]]
    /\ call = NoCall
    /\ retry \in {RetryGetCall(m, d) : m \in 0..MaxRetries, d \in 1..MaxBaseDelay}
    /\ enrichment = NoEnrichment

\* The state of the call r after one more request was made, came to the
\* outcome and time.sleep(wait) was called (wait 0: no sleep); the call goes
\* on to the next attempt or returns the result.
Attempted(r, outcome, wait, result) ==
    [r EXCEPT !.requests = @ + 1,
              !.trace = Append(@, [attempt |-> r.attempt,
                                   outcome |-> outcome,
                                   wait    |-> wait]),
              !.attempt = IF result = "pending" THEN @ + 1 ELSE @,
              !.status = IF result = "pending" THEN "running" ELSE "returned",
              !.result = result]

\* One iteration of the loop: the request, and what the try block and the
\* except clause do with its outcome.  raise_for_status raises an HTTPError,
\* which is a RequestException, for status 500.
RetryGetIteration(r, outcome) ==
    CASE outcome = "429" ->
             Attempted(r, outcome, RateLimitWait(r.base_delay, r.attempt),
                       "pending")
      [] outcome = "404" -> Attempted(r, outcome, 0, "None")
      [] outcome = "200" -> Attempted(r, outcome, 0, "response")
      [] OTHER ->
             IF r.attempt = r.max_retries - 1
             THEN Attempted(r, outcome, 0, "None")
             ELSE Attempted(r, outcome, r.base_delay, "pending")

\* The body of the for loop runs once more.
RetryGetAttempt ==
    /\ retry.status = "running"
    /\ retry.attempt < retry.max_retries
    /\ \E outcome \in HttpOutcomes :
           retry' = RetryGetIteration(retry, outcome)
    /\ UNCHANGED <<engine, processed, ret, previous, call, enrichment,
                   loaded, set_order>>

\* range(max_retries) is exhausted: the return None after the loop.
RetryGetExhausted ==
    /\ retry.status = "running"
    /\ retry.attempt = retry.max_retries
    /\ retry' = [retry EXCEPT !.status = "returned", !.result = "None"]
    /\ UNCHANGED <<engine, processed, ret, previous, call, enrichment,
                   loaded, set_order>>

NextRetryGet ==
    \/ RetryGetAttempt
    \/ RetryGetExhausted

\* The call runs on its own thread of control and goes on until it returns.
SpecRetryGet ==
    InitRetryGet /\ [][NextRetryGet]_vars /\ WF_vars(NextRetryGet)

\* ------------------------------------------------------------------------
\* Search script: retry_request
\* ------------------------------------------------------------------------

\* retry_request(url, max_retries=m, delay=d) is entered.
RetryRequestCall(m, d) ==
    [status      |-> "running",
     max_retries |-> m,
     delay       |-> d,
     attempt     |-> 0,
     requests    |-> 0,
     trace       |-> <<>>,
     result      |-> "pending"]

InitRetryRequest ==
    /\ clusters = <<>>
    /\ next_cluster_id = 0
    /\ doi_index = EmptyDict
    /\ pmid_index = EmptyDict
    /\ arxiv_index = EmptyDict
    /\ title_index = EmptyDict
    /\ log = <<>>
    /\ processed = <<>>
    /\ set_order = EmptyDict
    /\ loaded = NotLoaded
    /\ ret = [op |-> "__init__", value |-> <<>>]
    /\ previous = [done |-> FALSE, processed |-> <<>>, engine |-> <<>>,
                   ret |-> [op |-> "__init__", value |-> <<>>]]
    /\ call = NoCall
    /\ retry \in {RetryRequestCall(m, d) : m \in 0..MaxRetries, d \in 1..MaxBaseDelay}
    /\ enrichment = NoEnrichment

\* Mutant of RetryRequestIteration: the exception of the last attempt is
\* swallowed and None returned, as retry_get does.
RetryRequestIterationSwallowing(r, outcome) ==
    CASE outcome = "429" ->
             Attempted(r, outcome, r.delay * (2 ^ r.attempt), "pending")
      [] outcome = "200" -> Attempted(r, outcome, 0, "response")
      [] OTHER ->
             IF r.attempt < r.max_retries - 1
             THEN Attempted(r, outcome, r.delay * (2 ^ r.attempt), "pending")
             ELSE Attempted(r, outcome, 0, "None")

\* One iteration of the loop: the request, and what the try block and the
\* except clause do with its outcome.  raise_for_status raises an HTTPError,
\* which is a RequestException, for status 404 and 500; the exception of
\* the last attempt leaves the call.
RetryRequestIteration(r, outcome) ==
    CASE outcome = "429" ->
             Attempted(r, outcome, r.delay * (2 ^ r.attempt), "pending")
      [] outcome = "200" -> Attempted(r, outcome, 0, "response")
      [] OTHER ->
             IF r.attempt < r.max_retries - 1
             THEN Attempted(r, outcome, r.delay * (2 ^ r.attempt), "pending")
             ELSE [Attempted(r, outcome, 0, "RequestException")
                      EXCEPT !.status = "raised"]

\* The body of the for loop runs once more.
RetryRequestAttempt ==
    /\ retry.status = "running"
    /\ retry.attempt < retry.max_retries
    /\ \E outcome \in HttpOutcomes :
           retry' = RetryRequestIteration(retry, outcome)
    /\ UNCHANGED <<engine, processed, ret, previous, call, enrichment,
                   loaded, set_order>>

\* range(max_retries) is exhausted: the return None after the loop.
RetryRequestExhausted ==
    /\ retry.status = "running"
    /\ retry.attempt = retry.max_retries
    /\ retry' = [retry EXCEPT !.status = "returned", !.result = "None"]
    /\ UNCHANGED <<engine, processed, ret, previous, call, enrichment,
                   loaded, set_order>>

NextRetryRequest ==
    \/ RetryRequestAttempt
    \/ RetryRequestExhausted

\* The call runs on its own thread of control and goes on until it returns
\* or raises.
SpecRetryRequest ==
    InitRetryRequest /\ [][NextRetryRequest]_vars /\ WF_vars(NextRetryRequest)

\* ------------------------------------------------------------------------
\* Enrichment script: abstracts and fetchers
\* ------------------------------------------------------------------------

MIN_ABSTRACT_LEN == 10

\* Texts an abstract field can hold.  None and "" are both the empty
\* sequence: every test the script makes of them (truthiness, has_abstract)
\* treats them alike.
Texts ==
    [long |-> [i \in 1..11 |-> "x"],
     short |-> <<"s","h","o","r","t">>,
     blank |-> <<" ", " ">>,
     padded_short |-> <<" ">> \o [i \in 1..9 |-> "x"] \o <<" ">>,
     padded_long |-> <<" ">> \o [i \in 1..11 |-> "x"],
     tagged_short |-> <<"<","p",">","s","h","o","r","t","<","/","p",">">>]

\* Mutant of has_abstract: the length taken before stripping.
has_abstract_unstripped(record) == Len(record.abstract) > MIN_ABSTRACT_LEN

\* has_abstract(record)
has_abstract(record) == Len(Strip(record.abstract)) > MIN_ABSTRACT_LEN

\* The abstract field of an API's answer; empty when retry_get returned
\* None or the answer has no abstract.
ApiAbstracts == {<<>>, Texts.blank, Texts.short, Texts.padded_short, Texts.long,
                 Texts.padded_long, Texts.tagged_short}

\* fetch_abstract_s2_doi, given the abstract of the API's answer; the
\* empty sequence is None.
fetch_abstract_s2_doi(abstract) ==
    IF abstract # <<>> /\ Len(Strip(abstract)) > MIN_ABSTRACT_LEN
    THEN Strip(abstract)
    ELSE <<>>

\* fetch_abstract_crossref, given the abstract of the API's answer.
fetch_abstract_crossref(abstract) ==
    IF abstract # <<>> /\ Len(Strip(abstract)) > MIN_ABSTRACT_LEN
    THEN Strip(StripTags(abstract))
    ELSE <<>>

\* The first paper of the search's answer: how its title compares with the
\* record's ("exact": equal in lower case; "similar": more than 80% of the
\* words shared; "different"), and its abstract.  No answer and an empty
\* list of papers are the paper with no abstract.
ApiPapers ==
    [match : {"exact", "similar", "different"}, abstract : ApiAbstracts]

\* fetch_abstract_s2_title, given the first paper of the answer.
fetch_abstract_s2_title(paper) ==
    IF paper.abstract # <<>> /\ paper.match \in {"exact", "similar"}
    THEN Strip(paper.abstract)
    ELSE <<>>

\* The lines of efetch's text answers: a title, authors, an abstract of
\* one long line or of two short ones, a journal line; and no answer.
ApiPubmedTexts ==
    { <<>>,
      << <<"T">>, <<>>, <<"A">>, <<>>, Texts.padded_long, <<>>, <<"J">> >>,
      << <<"T">>, <<>>, <<"A">>, <<>>, Texts.short, Texts.short, <<>>, <<"J">> >>,
      << <<"T">>, <<>>, <<"A">>, <<>>, Texts.short, <<>>, <<"J">> >>,
      << <<"T">>, <<"A">>, Texts.long >> }

\* The loop of fetch_abstract_pubmed over lines i, i+1, ... (1-based here,
\* 0-based in the code) with the abstract lines collected so far.
RECURSIVE PubmedAbstractLines(_, _, _, _)
PubmedAbstractLines(lines, i, in_abstract, collected) ==
    IF i > Len(lines) THEN collected
    ELSE IF Strip(lines[i]) = <<>> /\ i - 1 > 2 /\ ~in_abstract
    THEN PubmedAbstractLines(lines, i + 1, TRUE, collected)
    ELSE IF ~in_abstract
    THEN PubmedAbstractLines(lines, i + 1, FALSE, collected)
    ELSE IF Strip(lines[i]) = <<>> /\ collected # <<>>
    THEN collected
    ELSE IF Strip(lines[i]) # <<>>
    THEN PubmedAbstractLines(lines, i + 1, TRUE,
                             Append(collected, Strip(lines[i])))
    ELSE PubmedAbstractLines(lines, i + 1, TRUE, collected)

\* " ".join(abstract_lines)
RECURSIVE JoinLines(_)
JoinLines(lines) ==
    IF lines = <<>> THEN <<>>
    ELSE IF Len(lines) = 1 THEN lines[1]
    ELSE lines[1] \o <<" ">> \o JoinLines(Tail(lines))

\* fetch_abstract_pubmed, given the lines of the answer's text.
fetch_abstract_pubmed(lines) ==
    LET abstract == JoinLines(PubmedAbstractLines(lines, 1, FALSE, <<>>))
    IN  IF Len(abstract) > MIN_ABSTRACT_LEN THEN abstract ELSE <<>>

\* ------------------------------------------------------------------------
\* Enrichment script: main
\* ------------------------------------------------------------------------

MaxEnrichRecords == 2
MaxLimit == 1

\* A record of deduplicated_records.json as main reads it; the key
\* abstract_source is absent until main writes it.
EnrichRecord(doi, pmid, title, abstract) ==
    [cluster_id |-> 0, doi |-> doi, pmid |-> pmid, title |-> title,
     abstract |-> abstract, abstract_source |-> "absent"]

EnrichRecordKinds ==
    { EnrichRecord(<<"d">>, <<>>, <<"t">>, <<>>),
      EnrichRecord(<<>>, <<"1">>, <<"t">>, Texts.short),
      EnrichRecord(<<"d">>, <<"1">>, <<"t">>, Texts.padded_short),
      EnrichRecord(<<>>, <<>>, <<"t">>, <<>>),
      EnrichRecord(<<>>, <<>>, <<" ">>, Texts.blank),
      EnrichRecord(<<"d">>, <<>>, <<"t">>, Texts.long),
      EnrichRecord(<<>>, <<>>, <<"t">>, Texts.padded_long) }

\* The records files main can be given: the clusters numbered in order.
EnrichInputs ==
    UNION { { [i \in 1..n |-> [kinds[i] EXCEPT !.cluster_id = i - 1]] :
              kinds \in [1..n -> EnrichRecordKinds] } :
            n \in 1..MaxEnrichRecords }

\* [i for i, r in enumerate(records) if not has_abstract(r)], 1-based.
MissingIndexes(records) ==
    SelectSeq([i \in 1..Len(records) |-> i],
              LAMBDA i : ~has_abstract(records[i]))

\* main up to the head of the fetch loop: arguments parsed, records file
\* loaded, missing counted, fetch_list chosen.  on_disk is the records
\* file, excluded_file the excluded file (absent until written); input and
\* calls are history: the records as loaded, and per fetched record the
\* strategies called for it.
EnrichmentRun(dry_run, skip_fetch, limit, records) ==
    LET missing == MissingIndexes(records)
        fetching == ~skip_fetch /\ missing # <<>>
    IN  [pc |-> IF fetching THEN "fetch" ELSE "exclude",
         dry_run |-> dry_run, skip_fetch |-> skip_fetch, limit |-> limit,
         input |-> records, records |-> records, total |-> Len(records),
         fetch_list |-> IF ~fetching THEN <<>>
                        ELSE IF limit # 0 THEN Truncate(missing, limit)
                        ELSE missing,
         idx |-> 0, enriched_count |-> 0,
         log |-> [total_records |-> Len(records),
                  total_missing_before |-> Len(missing),
                  s2_doi_found |-> 0, s2_title_found |-> 0,
                  crossref_found |-> 0, pubmed_found |-> 0, enriched |-> 0,
                  still_missing_after_fetch |-> 0,
                  excluded_no_abstract |-> 0, records_for_screening |-> 0,
                  details |-> <<>>],
         calls |-> <<>>,
         on_disk |-> records, records_written |-> FALSE,
         excluded_file |-> <<>>, excluded_written |-> FALSE,
         log_written |-> FALSE]

InitEnrichment ==
    /\ clusters = <<>>
    /\ next_cluster_id = 0
    /\ doi_index = EmptyDict
    /\ pmid_index = EmptyDict
    /\ arxiv_index = EmptyDict
    /\ title_index = EmptyDict
    /\ log = <<>>
    /\ processed = <<>>
    /\ set_order = EmptyDict
    /\ loaded = NotLoaded
    /\ ret = [op |-> "__init__", value |-> <<>>]
    /\ previous = [done |-> FALSE, processed |-> <<>>, engine |-> <<>>,
                   ret |-> [op |-> "__init__", value |-> <<>>]]
    /\ call = NoCall
    /\ retry = NoRetry
    /\ enrichment \in { EnrichmentRun(dry_run, skip_fetch, limit, records) :
                           dry_run \in BOOLEAN, skip_fetch \in BOOLEAN,
                           limit \in 0..MaxLimit, records \in EnrichInputs }

\* Mutant of Strategies: CrossRef is asked for every record with a DOI,
\* whatever Semantic Scholar answered.
StrategiesCrossrefAlways(rec, s2_doi, crossref, pubmed, s2_title) ==
    LET doi == Strip(rec.doi)
        pmid == Strip(rec.pmid)
        title == Strip(rec.title)
        call1 == doi # <<>>
        abstract1 == IF call1 THEN fetch_abstract_s2_doi(s2_doi) ELSE <<>>
        call2 == doi # <<>>
        abstract2 == IF call2 /\ abstract1 = <<>>
                     THEN fetch_abstract_crossref(crossref)
                     ELSE abstract1
        call3 == pmid # <<>> /\ abstract2 = <<>>
        abstract3 == IF call3 THEN fetch_abstract_pubmed(pubmed)
                     ELSE abstract2
        call4 == doi = <<>> /\ pmid = <<>> /\ title # <<>>
                 /\ abstract3 = <<>>
        abstract4 == IF call4 THEN fetch_abstract_s2_title(s2_title)
                     ELSE abstract3
    IN  [calls |-> <<call1, call2, call3, call4>>,
         abstracts |-> <<abstract1, abstract2, abstract3, abstract4>>]

\* The four strategies of the fetch loop for one record, given what the
\* APIs would answer: whether each is called, and the abstract after each.
\* A strategy's guard reads only the answers of the strategies before it.
Strategies(rec, s2_doi, crossref, pubmed, s2_title) ==
    LET doi == Strip(rec.doi)
        pmid == Strip(rec.pmid)
        title == Strip(rec.title)
        call1 == doi # <<>>
        abstract1 == IF call1 THEN fetch_abstract_s2_doi(s2_doi) ELSE <<>>
        call2 == doi # <<>> /\ abstract1 = <<>>
        abstract2 == IF call2 THEN fetch_abstract_crossref(crossref)
                     ELSE abstract1
        call3 == pmid # <<>> /\ abstract2 = <<>>
        abstract3 == IF call3 THEN fetch_abstract_pubmed(pubmed)
                     ELSE abstract2
        call4 == doi = <<>> /\ pmid = <<>> /\ title # <<>>
                 /\ abstract3 = <<>>
        abstract4 == IF call4 THEN fetch_abstract_s2_title(s2_title)
                     ELSE abstract3
    IN  [calls |-> <<call1, call2, call3, call4>>,
         abstracts |-> <<abstract1, abstract2, abstract3, abstract4>>]

\* Mutant of FetchIteration: the abstract found is written even in a dry
\* run.
FetchIterationWriting(e, s2_doi, crossref, pubmed, s2_title) ==
    LET rec_idx == e.fetch_list[e.idx + 1]
        rec == e.records[rec_idx]
        abstract == Strategies(rec, s2_doi, crossref, pubmed,
                               s2_title).abstracts[4]
    IN  [e EXCEPT
           !.records = IF abstract # <<>>
                       THEN [@ EXCEPT ![rec_idx] =
                               [@ EXCEPT !.abstract = abstract,
                                         !.abstract_source = "written"]]
                       ELSE @,
           !.enriched_count = @ + (IF abstract # <<>> THEN 1 ELSE 0),
           !.idx = @ + 1,
           !.pc = IF e.idx + 1 = Len(e.fetch_list) THEN "exclude" ELSE "fetch"]

\* One iteration of the fetch loop for record rec_idx, given what the four
\* APIs would answer; a strategy's answer is read only when the strategy
\* is called.
FetchIteration(e, s2_doi, crossref, pubmed, s2_title) ==
    LET rec_idx == e.fetch_list[e.idx + 1]
        rec == e.records[rec_idx]
        doi == Strip(rec.doi)
        strategies == Strategies(rec, s2_doi, crossref, pubmed, s2_title)
        abstract1 == strategies.abstracts[1]
        abstract2 == strategies.abstracts[2]
        abstract3 == strategies.abstracts[3]
        abstract == strategies.abstracts[4]
        call1 == strategies.calls[1]
        call2 == strategies.calls[2]
        call3 == strategies.calls[3]
        call4 == strategies.calls[4]
        source_api == IF call1 /\ abstract1 # <<>> THEN "s2_doi"
                      ELSE IF call2 /\ abstract2 # <<>> THEN "crossref"
                      ELSE IF call3 /\ abstract3 # <<>> THEN "pubmed"
                      ELSE IF call4 /\ abstract # <<>> THEN "s2_title"
                      ELSE "None"
        found(name) == IF source_api = name THEN 1 ELSE 0
        enriched_count == e.enriched_count
                          + (IF abstract # <<>> THEN 1 ELSE 0)
        last == e.idx + 1 = Len(e.fetch_list)
    IN  [e EXCEPT
           !.records = IF abstract # <<>> /\ ~e.dry_run
                       THEN [@ EXCEPT ![rec_idx] =
                               [@ EXCEPT !.abstract = abstract,
                                         !.abstract_source = source_api]]
                       ELSE @,
           !.enriched_count = enriched_count,
           !.log = [@ EXCEPT
                      !.s2_doi_found = @ + found("s2_doi"),
                      !.crossref_found = @ + found("crossref"),
                      !.pubmed_found = @ + found("pubmed"),
                      !.s2_title_found = @ + found("s2_title"),
                      !.enriched = IF last THEN enriched_count ELSE @,
                      !.details = Append(@,
                          [cluster_id |-> rec.cluster_id, doi |-> doi,
                           source_api |-> source_api,
                           abstract_len |-> Len(abstract)])],
           !.calls = Append(@,
               SelectSeq(<<"s2_doi", "crossref", "pubmed", "s2_title">>,
                         LAMBDA name : \/ name = "s2_doi" /\ call1
                                       \/ name = "crossref" /\ call2
                                       \/ name = "pubmed" /\ call3
                                       \/ name = "s2_title" /\ call4)),
           !.idx = @ + 1,
           !.pc = IF last THEN "exclude" ELSE "fetch"]

\* What an API can answer when it is called; a strategy not called has
\* no answer.
Answers(called, answers, none) == IF called THEN answers ELSE {none}

\* Step 1, one record of fetch_list; no paper is the answer of a search
\* not made.
EnrichFetch ==
    /\ enrichment.pc = "fetch"
    /\ LET rec == enrichment.records[enrichment.fetch_list[enrichment.idx + 1]]
           none == [match |-> "different", abstract |-> <<>>]
           called(k, s2_doi, crossref, pubmed) ==
               Strategies(rec, s2_doi, crossref, pubmed, none).calls[k]
       IN  \E s2_doi \in Answers(called(1, <<>>, <<>>, <<>>), ApiAbstracts, <<>>) :
           \E crossref \in Answers(called(2, s2_doi, <<>>, <<>>), ApiAbstracts, <<>>) :
           \E pubmed \in Answers(called(3, s2_doi, crossref, <<>>), ApiPubmedTexts, <<>>) :
           \E s2_title \in Answers(called(4, s2_doi, crossref, pubmed), ApiPapers, none) :
               enrichment' = FetchIteration(enrichment, s2_doi, crossref,
                                            pubmed, s2_title)
    /\ UNCHANGED <<engine, processed, ret, previous, call, retry, loaded,
                   set_order>>

\* The records at the given (1-based) indexes, in order.
RecordsAt(records, indexes) ==
    [k \in 1..Len(indexes) |-> records[indexes[k]]]

\* Step 2 and the end of main: the exclusion, the summary and the log file.
ExclusionStep(e) ==
    LET still_missing == MissingIndexes(e.records)
        kept == SelectSeq([i \in 1..Len(e.records) |-> i],
                          LAMBDA i : has_abstract(e.records[i]))
        excluded_records == RecordsAt(e.records, still_missing)
        included_records == RecordsAt(e.records, kept)
        e1 == [e EXCEPT !.log.still_missing_after_fetch = Len(still_missing),
                        !.pc = "done", !.log_written = TRUE]
    IN  IF still_missing # <<>> /\ ~e.dry_run
        THEN [e1 EXCEPT
                !.log.excluded_no_abstract = Len(excluded_records),
                !.log.records_for_screening = Len(included_records),
                !.excluded_file = excluded_records,
                !.excluded_written = TRUE,
                !.on_disk = included_records,
                !.records_written = TRUE]
        ELSE IF e.dry_run
        THEN [e1 EXCEPT
                !.log.excluded_no_abstract = Len(still_missing),
                !.log.records_for_screening = e.total - Len(still_missing)]
        ELSE e1

EnrichExclude ==
    /\ enrichment.pc = "exclude"
    /\ enrichment' = ExclusionStep(enrichment)
    /\ UNCHANGED <<engine, processed, ret, previous, call, retry, loaded,
                   set_order>>

NextEnrichment == EnrichFetch \/ EnrichExclude

SpecEnrichment == InitEnrichment /\ [][NextEnrichment]_vars

\* ------------------------------------------------------------------------
\* Vocabulary of the properties
\* ------------------------------------------------------------------------

\* The four key types in _find_cluster's priority order.
KeyTypes == 1..4

KeyOf(record, t) ==
    CASE t = 1 -> record.doi_normalized
      [] t = 2 -> record.pmid
      [] t = 3 -> record.arxiv_id_normalized
      [] t = 4 -> record.title_normalized

IndexOf(t) ==
    CASE t = 1 -> doi_index
      [] t = 2 -> pmid_index
      [] t = 3 -> arxiv_index
      [] t = 4 -> title_index

KindOf(t) ==
    CASE t = 1 -> "DOI match"
      [] t = 2 -> "PMID match"
      [] t = 3 -> "arXiv ID match"
      [] t = 4 -> "Exact title match"

Positions == 1..Len(processed)

\* The cluster the i-th processed record was put in, as the log records it
\* (C5_LogOneToOne ties the log to the member lists).
ClusterOf(i) == log[i].cluster_id

\* The i-th and j-th processed records carry the same non-empty key of type t.
SharesKey(i, j, t) ==
    /\ KeyOf(processed[i], t) # <<>>
    /\ KeyOf(processed[i], t) = KeyOf(processed[j], t)

\* The i-th processed record was merged on a key of higher priority than t.
Diverted(i, t) == \E u \in 1..(t - 1) : log[i].reason.kind = KindOf(u)

\* The positions, in processing order, of the records the log puts in
\* cluster cid.
RECURSIVE LoggedMembers(_, _)
LoggedMembers(cid, n) ==
    IF n = 0 THEN <<>>
    ELSE IF log[n].cluster_id = cid
         THEN Append(LoggedMembers(cid, n - 1), processed[n])
         ELSE LoggedMembers(cid, n - 1)

AllEmpty(record) == \A t \in KeyTypes : KeyOf(record, t) = <<>>

\* ------------------------------------------------------------------------
\* C1
\* ------------------------------------------------------------------------

\* C1 as stated: any two processed records that share a non-empty key
\* (normalized DOI, PMID, normalized arXiv ID or normalized title) are in the
\* same cluster, for every input and every processing order.
C1_SharedKeySameCluster ==
    \A i, j \in Positions :
        (\E t \in KeyTypes : SharesKey(i, j, t)) => ClusterOf(i) = ClusterOf(j)

\* C1 as amended: any two processed records that share a non-empty key are in
\* the same cluster, for every input and every processing order, unless one
\* of the two was merged on a key of higher priority than the shared key; two
\* records sharing a normalized DOI are therefore always in the same cluster.
C1_SharedKeySameClusterUnlessDiverted ==
    \A i, j \in Positions : \A t \in KeyTypes :
        (SharesKey(i, j, t) /\ ~Diverted(i, t) /\ ~Diverted(j, t))
            => ClusterOf(i) = ClusterOf(j)

\* Two records sharing only a title ended in one cluster, the later one
\* merged on the title, while the engine holds a second cluster.
C1_Witness ==
    \E i, j \in Positions :
        /\ i < j
        /\ SharesKey(i, j, 4)
        /\ \A t \in 1..3 : ~SharesKey(i, j, t)
        /\ log[j].reason.kind = KindOf(4)
        /\ ClusterOf(i) = ClusterOf(j)
        /\ Len(clusters) >= 2

\* ------------------------------------------------------------------------
\* C2
\* ------------------------------------------------------------------------

StaysMapped(index, index_after) ==
    \A key \in DOMAIN index :
        key \in DOMAIN index_after /\ index_after[key] = index[key]

\* C2: first-writer-wins: once a key of one of the four indexes maps to a
\* cluster id, no later add_record changes or removes that mapping.
C2_FirstWriterWins ==
    [][(Len(processed') = Len(processed) + 1)
          => /\ StaysMapped(doi_index, doi_index')
             /\ StaysMapped(pmid_index, pmid_index')
             /\ StaysMapped(arxiv_index, arxiv_index')
             /\ StaysMapped(title_index, title_index')]_vars

\* A processed record carries a key that its index maps to another cluster
\* than the one the record was put in.
C2_Witness ==
    \E i \in Positions : \E t \in KeyTypes :
        /\ KeyOf(processed[i], t) \in DOMAIN IndexOf(t)
        /\ IndexOf(t)[KeyOf(processed[i], t)] # ClusterOf(i)

\* ------------------------------------------------------------------------
\* C3
\* ------------------------------------------------------------------------

\* C3: the empty string is a key of none of the four indexes, and
\* _find_cluster returns no match on an empty key: whatever record comes
\* next, a match it returns is on a key the record carries non-empty, and a
\* merged record and the record that registered the matched key both carry it.
C3_EmptyNeverKey ==
    /\ \A t \in KeyTypes : <<>> \notin DOMAIN IndexOf(t)
    /\ \A record \in Records :
           LET found == _find_cluster(record)
           IN  found.cid # None
                   => \E t \in KeyTypes :
                          /\ found.reason.kind = KindOf(t)
                          /\ KeyOf(record, t) # <<>>
                          /\ found.cid = IndexOf(t)[KeyOf(record, t)]
    /\ \A i \in Positions :
           log[i].action = "MERGE"
               => \E t \in KeyTypes : \E j \in 1..(i - 1) :
                      /\ log[i].reason.kind = KindOf(t)
                      /\ SharesKey(i, j, t)

\* Two records that both lack a DOI, a PMID and an arXiv ID were processed
\* and are in different clusters, while the indexes are not empty.
C3_Witness ==
    \E i, j \in Positions :
        /\ i < j
        /\ \A t \in 1..3 : KeyOf(processed[i], t) = <<>>
        /\ \A t \in 1..3 : KeyOf(processed[j], t) = <<>>
        /\ ClusterOf(i) # ClusterOf(j)
        /\ DOMAIN title_index # {}

\* ------------------------------------------------------------------------
\* C4
\* ------------------------------------------------------------------------

\* C4: a record whose four keys are all empty gets a NEW log entry and a
\* cluster of its own, whatever the engine state, and that cluster stays a
\* singleton whatever is added later.
C4_AllEmptyIsSingleton ==
    \A i \in Positions :
        AllEmpty(processed[i])
            => /\ log[i].action = "NEW"
               /\ ClusterOf(i) \in ClusterIds(clusters)
               /\ ClusterRecords(clusters, ClusterOf(i)) = <<processed[i]>>
               /\ \A j \in Positions : j # i => ClusterOf(j) # ClusterOf(i)

\* An all-empty record was added to an engine that held a cluster already,
\* and a second all-empty record was added after it.
C4_Witness ==
    \E i, j \in Positions :
        /\ 1 < i /\ i < j
        /\ AllEmpty(processed[i])
        /\ AllEmpty(processed[j])

\* ------------------------------------------------------------------------
\* C5
\* ------------------------------------------------------------------------

LogMatchesInput ==
    /\ Len(log) = Len(processed)
    /\ \A i \in Positions :
           /\ log[i].source_db = processed[i].source_db
           /\ log[i].doi = processed[i].doi_original
           /\ log[i].cluster_id \in ClusterIds(clusters)
    /\ \A i \in 1..Len(clusters) :
           clusters[i].records = LoggedMembers(clusters[i].cid, Len(log))

\* C5: the log is one-to-one with the processed records and append-only:
\* after n add_record calls it has n entries, the i-th entry carries the
\* source, the DOI and the cluster id of the i-th record, every cluster's
\* member list is exactly the records the log puts in it, in processing
\* order, and an add_record call leaves the existing entries as they were.
C5_LogOneToOne ==
    /\ []LogMatchesInput
    /\ [][(Len(processed') = Len(processed) + 1)
             => /\ Len(log') = Len(log) + 1
                /\ SubSeq(log', 1, Len(log)) = log]_vars

\* Three records were processed, one of them merged, one of them with an
\* original DOI that differs from its normalized DOI.
C5_Witness ==
    /\ Len(log) = 3
    /\ \E i \in Positions : log[i].action = "MERGE"
    /\ \E i \in Positions :
           /\ log[i].action = "MERGE"
           /\ processed[i].doi_original # processed[i].doi_normalized

\* ------------------------------------------------------------------------
\* C6
\* ------------------------------------------------------------------------

\* The record's key of type t is non-empty and in its index.
Matches(record, t) ==
    KeyOf(record, t) # <<>> /\ KeyOf(record, t) \in DOMAIN IndexOf(t)

\* C6: add_record puts the record in the cluster mapped by its
\* highest-priority key (DOI, PMID, arXiv ID, title) that is non-empty and in
\* its index, and logs a MERGE whose reason names that key type; a
\* lower-priority key decides only when no higher-priority key matches, and
\* a record none of whose keys matches founds a cluster with a NEW entry.
C6_PriorityOrder ==
    [][(Len(processed') = Len(processed) + 1)
          => LET record == processed'[Len(processed')]
                 entry == log'[Len(log')]
             IN  /\ \A t \in KeyTypes :
                        (Matches(record, t)
                             /\ \A u \in 1..(t - 1) : ~Matches(record, u))
                            => /\ entry.action = "MERGE"
                               /\ entry.reason.kind = KindOf(t)
                               /\ entry.cluster_id = IndexOf(t)[KeyOf(record, t)]
                               /\ ClusterRecords(clusters', entry.cluster_id)
                                      = Append(ClusterRecords(clusters,
                                                              entry.cluster_id),
                                               record)
                 /\ (\A t \in KeyTypes : ~Matches(record, t))
                        => /\ entry.action = "NEW"
                           /\ entry.cluster_id \notin ClusterIds(clusters)
                           /\ ClusterRecords(clusters', entry.cluster_id)
                                  = <<record>>]_vars

\* A record with a DOI that no index entry matches was merged on its PMID,
\* and another record was merged on its title although it carries an arXiv ID.
C6_Witness ==
    /\ \E i \in Positions :
           /\ log[i].reason.kind = KindOf(2)
           /\ processed[i].doi_normalized # <<>>
    /\ \E i \in Positions :
           /\ log[i].reason.kind = KindOf(4)
           /\ processed[i].arxiv_id_normalized # <<>>

\* ------------------------------------------------------------------------
\* C7
\* ------------------------------------------------------------------------

C8_ClusterIdsIncrease ==
    [][(Len(processed') = Len(processed) + 1)
          => /\ next_cluster_id' >= next_cluster_id
             /\ \A cid \in ClusterIds(clusters') : cid < next_cluster_id'
             /\ log'[Len(log')].action = "NEW"
                    => /\ \A cid \in ClusterIds(clusters) :
                              log'[Len(log')].cluster_id > cid
                       /\ Len(clusters') = Len(clusters) + 1
                       /\ clusters'[Len(clusters')].cid
                              = log'[Len(log')].cluster_id
                       /\ SubSeq(clusters', 1, Len(clusters)) = clusters]_vars

\* Three clusters were created one after the other.
C8_Witness ==
    /\ Len(clusters) = 3
    /\ \A i \in Positions : log[i].action = "NEW"

\* ------------------------------------------------------------------------
\* C9
\* ------------------------------------------------------------------------

IsPrefix(s, t) == Len(s) <= Len(t) /\ SubSeq(t, 1, Len(s)) = s

\* C9: over any step the cluster table keeps every cluster it has, under the
\* same id and in the same place, and each cluster's member list is a prefix
\* of its member list after the step.
C9_ClustersAppendOnly ==
    [][/\ Len(clusters') >= Len(clusters)
       /\ \A i \in 1..Len(clusters) :
              /\ clusters'[i].cid = clusters[i].cid
              /\ IsPrefix(clusters[i].records, clusters'[i].records)]_vars

\* A cluster of two members next to another cluster.
C9_Witness ==
    /\ Len(clusters) = 2
    /\ \E i \in 1..2 : Len(clusters[i].records) = 2

\* ------------------------------------------------------------------------
\* C10
\* ------------------------------------------------------------------------

\* Every processed record carries the same non-empty PMID.
SamePmid ==
    /\ processed # <<>>
    /\ processed[1].pmid # <<>>
    /\ \A i \in Positions : processed[i].pmid = processed[1].pmid

\* C10: when every record fed to the engine carries the same non-empty PMID,
\* the engine holds one cluster with all of them, and
\* get_deduplicated_records returns one record whose duplicate_count is the
\* number of inputs and whose sources hold every input's source.
C10_SamePmidOneCluster ==
    SamePmid
        => /\ Len(clusters) = 1
           /\ clusters[1].records = processed
           /\ ret.op = "get_deduplicated_records"
                  => /\ Len(ret.value) = 1
                     /\ ret.value[1].duplicate_count = Len(processed)
                     /\ \A i \in Positions :
                            \E k \in 1..Len(ret.value[1].sources) :
                                ret.value[1].sources[k] = processed[i].source_db

\* Three records from three exports with one PMID, two titles and two DOIs
\* were processed and get_deduplicated_records was called.
C10_Witness ==
    /\ SamePmid
    /\ Len(processed) = 3
    /\ Cardinality({processed[i].source_db : i \in Positions}) = 3
    /\ Cardinality({processed[i].title_normalized : i \in Positions}) = 2
    /\ Cardinality({processed[i].doi_normalized : i \in Positions} \ {<<>>}) = 2
    /\ ret.op = "get_deduplicated_records"

\* ------------------------------------------------------------------------
\* Preprint links and output records
\* ------------------------------------------------------------------------

\* Records a and b share a non-empty value of the field.
SharesField(a, b, field) == a[field] # <<>> /\ a[field] = b[field]

\* A fresh engine was fed a record with a preprint DOI and then a record
\* with a published DOI and the same non-empty normalized title, the two
\* sharing neither a PMID nor an arXiv ID.
PreprintThenPublished ==
    /\ Len(processed) = 2
    /\ is_preprint_doi(processed[1].doi_normalized)
    /\ processed[2].doi_normalized # <<>>
    /\ ~is_preprint_doi(processed[2].doi_normalized)
    /\ SharesField(processed[1], processed[2], "title_normalized")
    /\ ~SharesField(processed[1], processed[2], "pmid")
    /\ ~SharesField(processed[1], processed[2], "arxiv_id_normalized")

\* C11: after a preprint-DOI record and then a published-DOI record of the
\* same title, the first founded cluster 0, the second was merged into
\* cluster 0 by exact title match, and resolve_preprints returns exactly one
\* link, for cluster 0, whose published DOI is the second record's
\* normalized DOI and whose preprint DOIs are the first record's alone.
C11_PreprintThenPublishedLinked ==
    PreprintThenPublished
        => /\ log[1].action = "NEW"
           /\ log[1].cluster_id = 0
           /\ log[2].action = "MERGE"
           /\ log[2].cluster_id = 0
           /\ log[2].reason.kind = "Exact title match"
           /\ ret.op = "resolve_preprints"
                  => /\ Len(ret.value) = 1
                     /\ ret.value[1].cluster_id = 0
                     /\ ret.value[1].published_doi
                            = processed[2].doi_normalized
                     /\ ret.value[1].preprint_dois
                            = <<processed[1].doi_normalized>>

\* resolve_preprints was called after the two records, whose titles differ
\* as written and whose published DOI was given as a URL.
C11_Witness ==
    /\ PreprintThenPublished
    /\ ret.op = "resolve_preprints"
    /\ processed[1].title_original # processed[2].title_original
    /\ processed[2].doi_original # processed[2].doi_normalized

\* The normalized DOIs of a cluster's members, in insertion order.
MemberDois(records) == [i \in 1..Len(records) |-> records[i].doi_normalized]

IsPublishedDoi(d) == d # <<>> /\ ~is_preprint_doi(d)

\* The cluster holds at least two members, one with a preprint DOI and one
\* with a non-empty DOI that is not a preprint's.
LinkDue(records) ==
    /\ Len(records) >= 2
    /\ \E i \in 1..Len(records) : is_preprint_doi(records[i].doi_normalized)
    /\ \E i \in 1..Len(records) : IsPublishedDoi(records[i].doi_normalized)

\* The positions of the links of cluster cid in the returned list.
LinksOf(cid) == {k \in 1..Len(ret.value) : ret.value[k].cluster_id = cid}

\* The returned list holds links of clusters only, at most one per cluster
\* and one exactly for the clusters a link is due for, each with the first
\* published normalized DOI and all normalized preprint DOIs in insertion
\* order; Title(records) is the title a link is to carry.
LinksAsSpecified(Title(_)) ==
    ret.op = "resolve_preprints"
        => /\ \A k \in 1..Len(ret.value) :
                  ret.value[k].cluster_id \in ClusterIds(clusters)
           /\ \A c \in 1..Len(clusters) :
                  LET records == clusters[c].records
                      links == LinksOf(clusters[c].cid)
                  IN  /\ Cardinality(links) <= 1
                      /\ links # {} <=> LinkDue(records)
                      /\ \A k \in links :
                             /\ ret.value[k].published_doi
                                    = SelectSeq(MemberDois(records),
                                                IsPublishedDoi)[1]
                             /\ ret.value[k].preprint_dois
                                    = SelectSeq(MemberDois(records),
                                                is_preprint_doi)
                             /\ ret.value[k].title = Title(records)

FoundingTitle(records) == records[1].title_original

FoundingTitleHead(records) ==
    SubSeq(records[1].title_original, 1,
           IF Len(records[1].title_original) < 100
           THEN Len(records[1].title_original) ELSE 100)

\* C12 as stated: resolve_preprints returns a link for a cluster if and only
\* if the cluster has at least two members, a member with a preprint DOI and
\* a member with a non-empty non-preprint DOI; at most one link per cluster;
\* the link carries the cluster ID, the first published normalized DOI and
\* all normalized preprint DOIs in insertion order, and the founding
\* record's title.
C12_LinkCarriesFoundingTitle == LinksAsSpecified(FoundingTitle)

\* C12, amended: the same, with the first 100 characters of the founding
\* record's title in place of the title.
C12_LinkCarriesTitleHead == LinksAsSpecified(FoundingTitleHead)

\* resolve_preprints returned a link of a cluster of three members, two of
\* them with a preprint DOI, whose founding record has a title of more than
\* 100 characters.
C12_Witness ==
    /\ ret.op = "resolve_preprints"
    /\ \E c \in 1..Len(clusters) :
           /\ LinksOf(clusters[c].cid) # {}
           /\ Len(clusters[c].records) = 3
           /\ Len(clusters[c].records[1].title_original) > 100
           /\ \E k \in LinksOf(clusters[c].cid) :
                  Len(ret.value[k].preprint_dois) = 2

\* The positions of the list get_deduplicated_records returned.
Results == IF ret.op = "get_deduplicated_records"
           THEN 1..Len(ret.value) ELSE {}

\* The members of the cluster the k-th returned record stands for.
Members(k) == ClusterRecords(clusters, ret.value[k].cluster_id)

\* C13: the abstract of every output record is the abstract of some member
\* of its cluster and no member's abstract is longer; it is empty only if
\* every member's abstract is empty.
C13_LongestAbstract ==
    \A k \in Results :
        /\ \E i \in 1..Len(Members(k)) :
               Members(k)[i].abstract = ret.value[k].abstract
        /\ \A i \in 1..Len(Members(k)) :
               Len(Members(k)[i].abstract) <= Len(ret.value[k].abstract)
        /\ ret.value[k].abstract = <<>>
               => \A i \in 1..Len(Members(k)) : Members(k)[i].abstract = <<>>

\* An output record holds an abstract longer than the abstract of the member
\* its year was taken from, in a cluster of abstracts of three lengths.
C13_Witness ==
    \E k \in Results :
        /\ \E i \in 1..Len(Members(k)) :
               /\ Members(k)[i].year = ret.value[k].year
               /\ Len(Members(k)[i].abstract) < Len(ret.value[k].abstract)
        /\ Cardinality({Len(Members(k)[i].abstract) :
                           i \in 1..Len(Members(k))}) = 3

\* The key the representative is chosen by: whether the member has a
\* published DOI, whether it has a DOI, the priority of its export and its
\* abstract's length, negated.
RankKey(r) ==
    << IF IsPublishedDoi(r.doi_normalized) THEN 1 ELSE 2,
       IF r.doi_normalized # <<>> THEN 1 ELSE 2,
       DbPriority(r.source_db),
       0 - Len(r.abstract) >>

\* Key a is before key b in the lexicographic order.
Before(a, b) ==
    \/ a[1] < b[1]
    \/ a[1] = b[1] /\ a[2] < b[2]
    \/ a[1] = b[1] /\ a[2] = b[2] /\ a[3] < b[3]
    \/ a[1] = b[1] /\ a[2] = b[2] /\ a[3] = b[3] /\ a[4] < b[4]

\* Member i of the records is the representative: no member's key is before
\* its key and every member added earlier has a key after its key.
IsRepresentative(records, i) ==
    /\ \A j \in 1..Len(records) : ~Before(RankKey(records[j]), RankKey(records[i]))
    /\ \A j \in 1..(i - 1) : Before(RankKey(records[i]), RankKey(records[j]))

\* C14: every output record takes its title, normalized title and year from
\* the member of its cluster that is minimal under the key (published DOI,
\* any DOI, export priority, negated abstract length) and, among the members
\* of that key, was added first.
C14_RepresentativeIsMinimal ==
    \A k \in Results :
        \E i \in 1..Len(Members(k)) :
            /\ IsRepresentative(Members(k), i)
            /\ ret.value[k].title = Members(k)[i].title_original
            /\ ret.value[k].title_normalized = Members(k)[i].title_normalized
            /\ ret.value[k].year = Members(k)[i].year

\* An output record stands for a cluster of three members in which two
\* different members have the minimal key and the earlier of them is not
\* the founding record.
C14_Witness ==
    \E k \in Results :
        /\ Len(Members(k)) = 3
        /\ \E i, j \in 2..Len(Members(k)) :
               /\ i < j
               /\ IsRepresentative(Members(k), i)
               /\ RankKey(Members(k)[i]) = RankKey(Members(k)[j])
               /\ Members(k)[i].year # Members(k)[j].year

\* The non-empty DOIs of the members as the exports gave them, in the order
\* the members were added.
EncounteredDois(records) ==
    SelectSeq([i \in 1..Len(records) |-> records[i].doi_original],
              LAMBDA d : d # <<>>)

\* The DOI the output is to hold: the first published DOI encountered, else
\* the first DOI encountered, else none.
FirstEncounteredDoi(records) ==
    LET dois == EncounteredDois(records)
        published == SelectSeq(dois, LAMBDA d : ~is_preprint_doi(d))
    IN  IF published # <<>> THEN published[1]
        ELSE IF dois # <<>> THEN dois[1] ELSE <<>>

\* C15: the doi of every output record is the first published DOI of its
\* cluster in encounter order if the cluster has one, else the first DOI of
\* any kind in encounter order, else empty.
C15_DoiFirstInEncounterOrder ==
    \A k \in Results : ret.value[k].doi = FirstEncounteredDoi(Members(k))

\* Member r carries a preprint DOI, a published DOI: the DOI string of its
\* export is non-empty and is, is not, a preprint publisher's.
HasPreprintDoi(r) == is_preprint_doi(r.doi_original)

HasPublishedDoi(r) == r.doi_original # <<>> /\ ~is_preprint_doi(r.doi_original)

NameRank(n) == CHOOSE i \in 1..Len(SourceNames) : SourceNames[i] = n

\* The list has no element twice.
DuplicateFree(list) ==
    \A i, j \in 1..Len(list) : i # j => list[i] # list[j]

\* The set of the list's elements.
Elements(list) == {list[i] : i \in 1..Len(list)}

\* C17: in every output record, sources lists the source_db values of the
\* cluster's members, each once, in sorted order, and n_sources is its
\* length; all_dois holds the members' non-empty original DOI strings, each
\* once; duplicate_count is the number of members.
C17_SourcesDoisAndCount ==
    \A k \in Results :
        LET r == ret.value[k]
        IN  /\ Elements(r.sources)
                   = {Members(k)[i].source_db : i \in 1..Len(Members(k))}
            /\ \A i, j \in 1..Len(r.sources) :
                   i < j => NameRank(r.sources[i]) < NameRank(r.sources[j])
            /\ r.n_sources = Len(r.sources)
            /\ Elements(r.all_dois)
                   = {Members(k)[i].doi_original : i \in 1..Len(Members(k))}
                         \ {<<>>}
            /\ DuplicateFree(r.all_dois)
            /\ r.duplicate_count = Len(Members(k))

\* An output record stands for a cluster of three members from two exports,
\* the founding member's not the first in sorted order, with one DOI string
\* carried by two members and a member with no DOI.
C17_Witness ==
    \E k \in Results :
        /\ Len(Members(k)) = 3
        /\ ret.value[k].n_sources = 2
        /\ ret.value[k].sources[1] # Members(k)[1].source_db
        /\ Len(ret.value[k].all_dois) = 1
        /\ Cardinality({i \in 1..3 : Members(k)[i].doi_original # <<>>}) = 2

\* The process ran twice on the same ordered input and both runs called
\* get_deduplicated_records after the last record.
SameInputTwice ==
    /\ previous.done
    /\ processed = previous.processed
    /\ ret.op = "get_deduplicated_records"
    /\ previous.ret.op = "get_deduplicated_records"

\* C18: get_deduplicated_records returns one record per cluster in ascending
\* order of cluster ID, and two runs on the same ordered input return the
\* same list, the doi, preprint_doi, pmid, arxiv_id and all_dois of every
\* record included.
C18_OutputDeterminedByInput ==
    /\ ret.op = "get_deduplicated_records"
           => /\ Len(ret.value) = Len(clusters)
              /\ \A k \in 1..Len(ret.value) :
                     ret.value[k].cluster_id = clusters[k].cid
              /\ \A j, k \in 1..Len(ret.value) :
                     j < k => ret.value[j].cluster_id < ret.value[k].cluster_id
    /\ SameInputTwice => ret.value = previous.ret.value

\* ------------------------------------------------------------------------
\* Normalization helpers
\* ------------------------------------------------------------------------

\* The helper fn was called on both arguments.
CalledTwice(fn) == call.fn = fn /\ Len(call.results) = 2

\* Strings a and b differ by letter case only.
SameButCase(a, b) ==
    /\ Len(a) = Len(b)
    /\ \A i \in 1..Len(a) : LowerChar(a[i]) = LowerChar(b[i])

\* String b is string a with whitespace before it, after it or both.
Padded(a, b) ==
    \E lead \in 0..(Len(b) - Len(a)) :
        /\ SubSeq(b, lead + 1, lead + Len(a)) = a
        /\ \A i \in 1..lead : b[i] \in Whitespace
        /\ \A i \in (lead + Len(a) + 1)..Len(b) : b[i] \in Whitespace

\* String b is string a behind one of the known URL prefixes, in any letter
\* case.
Prefixed(a, b) ==
    \E k \in 1..Len(DOI_URL_PREFIXES) :
        LET n == Len(DOI_URL_PREFIXES[k])
        IN  /\ Len(b) = n + Len(a)
            /\ Lower(SubSeq(b, 1, n)) = DOI_URL_PREFIXES[k]
            /\ SubSeq(b, n + 1, Len(b)) = a

\* C19: normalize_doi returns the same value for any two inputs that differ
\* only by the presence of a known DOI URL prefix (in any letter case), by
\* letter case, or by surrounding whitespace.
C19_SameDoiForVariants ==
    CalledTwice("normalize_doi")
        => LET a == call.args[1]
               b == call.args[2]
           IN  (\/ SameButCase(a, b)
                \/ Padded(a, b)
                \/ Padded(b, a)
                \/ Prefixed(a, b)
                \/ Prefixed(b, a))
                   => call.results[1] = call.results[2]

\* String b without its characters i to j.
Without(b, i, j) == SubSeq(b, 1, i - 1) \o SubSeq(b, j + 1, Len(b))

AngleBrackets == {"<", ">"}

\* A punctuation character: neither a letter, a digit or whitespace, nor
\* one of the angle brackets that delimit markup.
IsPunctuation(c) ==
    /\ ~IsLetter(c)
    /\ c \notin Digits
    /\ c \notin Whitespace
    /\ c \notin AngleBrackets

\* String b is string a with one more punctuation character.
MorePunctuation(a, b) ==
    \E i \in 1..Len(b) : IsPunctuation(b[i]) /\ a = Without(b, i, i)

\* String b is string a, a title with no angle bracket, with one more
\* markup span: "<", one or more characters other than angle brackets, ">".
MoreMarkup(a, b) ==
    /\ \A i \in 1..Len(a) : a[i] \notin AngleBrackets
    /\ \E i, j \in 1..Len(b) :
           /\ i + 1 < j
           /\ b[i] = "<"
           /\ b[j] = ">"
           /\ \A k \in (i + 1)..(j - 1) : b[k] \notin AngleBrackets
           /\ a = Without(b, i, j)

\* String b is string a with one whitespace run longer by one character.
LongerWhitespaceRun(a, b) ==
    \E i \in 1..Len(b) :
        /\ b[i] \in Whitespace
        /\ \/ i > 1 /\ b[i - 1] \in Whitespace
           \/ i < Len(b) /\ b[i + 1] \in Whitespace
        /\ a = Without(b, i, i)

\* C20: normalize_title returns the same value for any two titles that
\* differ only by a markup span, by a punctuation character, by letter
\* case, or by the length of a whitespace run.
C20_SameTitleForVariants ==
    CalledTwice("normalize_title")
        => LET a == call.args[1]
               b == call.args[2]
           IN  (\/ SameButCase(a, b)
                \/ MorePunctuation(a, b)
                \/ MorePunctuation(b, a)
                \/ MoreMarkup(a, b)
                \/ MoreMarkup(b, a)
                \/ LongerWhitespaceRun(a, b)
                \/ LongerWhitespaceRun(b, a))
                   => call.results[1] = call.results[2]

\* A character of a word: a letter or a digit.
IsAlnum(c) == IsLetter(c) \/ c \in Digits

\* The words of a title, in lower case: its maximal runs of letters and
\* digits, in the order they stand.
Words(t) ==
    LET starts == {i \in 1..Len(t) :
                      IsAlnum(t[i]) /\ (i = 1 \/ ~IsAlnum(t[i - 1]))}
        Start(k) == CHOOSE i \in starts :
                        Cardinality({j \in starts : j <= i}) = k
        End(i) == CHOOSE j \in i..Len(t) :
                      /\ \A m \in i..j : IsAlnum(t[m])
                      /\ (j = Len(t) \/ ~IsAlnum(t[j + 1]))
    IN  [k \in 1..Cardinality(starts) |->
            Lower(SubSeq(t, Start(k), End(Start(k))))]

\* Word list w is word list v with one more word.
OneMoreWord(v, w) ==
    \E i \in 1..Len(w) : v = Without(w, i, i)

\* Word lists v and w have a different word in one place.
OneOtherWord(v, w) ==
    /\ Len(v) = Len(w)
    /\ Cardinality({i \in 1..Len(v) : v[i] # w[i]}) = 1

\* Titles a and b differ by one word.
DifferByOneWord(a, b) ==
    \/ OneMoreWord(Words(a), Words(b))
    \/ OneMoreWord(Words(b), Words(a))
    \/ OneOtherWord(Words(a), Words(b))

\* The title holds a markup span: "<", one or more characters other than
\* ">", and ">".
HasSpan(t) ==
    \E i, j \in 1..Len(t) :
        /\ i + 1 < j
        /\ t[i] = "<"
        /\ t[j] = ">"
        /\ \A k \in (i + 1)..(j - 1) : t[k] # ">"

\* C21 as stated: normalize_title returns different values for any two
\* titles that differ by one word.
C21_OneWordApartDiffers ==
    CalledTwice("normalize_title")
        => \/ call.results[1] # call.results[2]
           \/ ~DifferByOneWord(call.args[1], call.args[2])

\* C21, amended: normalize_title returns different values for any two
\* titles without a markup span that differ by one word.
C21_OneWordApartDiffersOutsideMarkup ==
    CalledTwice("normalize_title")
        => \/ call.results[1] # call.results[2]
           \/ HasSpan(call.args[1])
           \/ HasSpan(call.args[2])
           \/ ~DifferByOneWord(call.args[1], call.args[2])

\* normalize_title was called on two titles of two words each, without a
\* markup span, that differ in one word; in one the words are separated
\* by an angle bracket, in the other by a space.
C21_Witness ==
    /\ CalledTwice("normalize_title")
    /\ ~HasSpan(call.args[1])
    /\ ~HasSpan(call.args[2])
    /\ OneOtherWord(Words(call.args[1]), Words(call.args[2]))
    /\ Len(Words(call.args[1])) = 2
    /\ \E i \in 1..Len(call.args[1]) : call.args[1][i] = "<"
    /\ \E i \in 1..Len(call.args[2]) : call.args[2][i] = " "

\* ------------------------------------------------------------------------
\* Enrichment script
\* ------------------------------------------------------------------------

\* What holds at every moment of a call of retry_get: no exception leaves
\* it; it has made at most max_retries requests; a 429 at attempt k was
\* followed by a wait of base_delay * 2^k; a 404 was the last request and
\* made the call return None; and a call that returned without a 200
\* returned None.
RetryGetBounded ==
    /\ retry.status \in {"running", "returned"}
    /\ retry.requests <= retry.max_retries
    /\ retry.requests = Len(retry.trace)
    /\ \A n \in 1..Len(retry.trace) :
           /\ retry.trace[n].attempt = n - 1
           /\ retry.trace[n].outcome = "429"
                  => retry.trace[n].wait
                         = retry.base_delay * (2 ^ retry.trace[n].attempt)
           /\ retry.trace[n].outcome = "404"
                  => /\ n = Len(retry.trace)
                     /\ retry.status = "returned"
                     /\ retry.result = "None"
    /\ (/\ retry.status = "returned"
        /\ \A n \in 1..Len(retry.trace) : retry.trace[n].outcome # "200")
           => retry.result = "None"

\* C22: retry_get makes at most max_retries requests and returns, whatever
\* the requests come to; a 404 makes it return None at once; after a 429 at
\* attempt k it waits base_delay * 2^k; 429s and request exceptions to the
\* end make it return None, and it never raises.
C22_RetryGetBoundedAndReturns ==
    []RetryGetBounded /\ <>(retry.status = "returned")

\* A call with max_retries 3 returned None after three 429s, having waited
\* base_delay, twice and four times base_delay.
C22_Witness ==
    /\ retry.status = "returned"
    /\ retry.result = "None"
    /\ retry.max_retries = 3
    /\ retry.requests = 3
    /\ \A n \in 1..3 : retry.trace[n].outcome = "429"
    /\ retry.trace[3].wait = 4 * retry.base_delay




\* A text of letters, digits and single spaces only, with no space at
\* either end.
OnlyWordsAndSingleSpaces(t) ==
    /\ \A i \in 1..Len(t) : IsAlnum(t[i]) \/ t[i] = " "
    /\ \A i \in 1..(Len(t) - 1) : ~(t[i] = " " /\ t[i + 1] = " ")
    /\ t # <<>> => t[1] # " " /\ t[Len(t)] # " "

\* C29: the output of normalize_title holds only letters, digits and single
\* spaces, with no space at either end.
C29_OutputLettersDigitsSingleSpaces ==
    \A k \in 1..Len(call.results) :
        call.fn = "normalize_title" => OnlyWordsAndSingleSpaces(call.results[k])

\* The MERGE entries of the log; entry i is the one add_record appended for
\* the i-th record it was given.
MergeEntries == {i \in 1..Len(log) : log[i].action = "MERGE"}

\* The entry's reason names a key of the record that its index maps to the
\* entry's cluster, with the key's value for a DOI, PMID or arXiv match.
ReasonNamesMatchedKey(entry, record) ==
    \/ /\ entry.reason.kind = "DOI match"
       /\ entry.reason.value = record.doi_normalized
       /\ record.doi_normalized # <<>>
       /\ Get(doi_index, record.doi_normalized) = entry.cluster_id
    \/ /\ entry.reason.kind = "PMID match"
       /\ entry.reason.value = record.pmid
       /\ record.pmid # <<>>
       /\ Get(pmid_index, record.pmid) = entry.cluster_id
    \/ /\ entry.reason.kind = "arXiv ID match"
       /\ entry.reason.value = record.arxiv_id_normalized
       /\ record.arxiv_id_normalized # <<>>
       /\ Get(arxiv_index, record.arxiv_id_normalized) = entry.cluster_id
    \/ /\ entry.reason.kind = "Exact title match"
       /\ record.title_normalized # <<>>
       /\ Get(title_index, record.title_normalized) = entry.cluster_id

\* The first n characters of a text, all of it when it is shorter.
FirstCharacters(text, n) ==
    [k \in 1..(IF Len(text) < n THEN Len(text) ELSE n) |-> text[k]]

\* The founding (first-inserted) record of a cluster.
Founding(cluster_id) == ClusterRecords(clusters, cluster_id)[1]

\* The record the i-th call of add_record was given is a member of the
\* entry's cluster.
MergedInto(i) ==
    \E k \in 2..Len(ClusterRecords(clusters, log[i].cluster_id)) :
        ClusterRecords(clusters, log[i].cluster_id)[k] = processed[i]

\* C25 as stated: every MERGE entry names the matched key, the target
\* cluster, and the source and the title of the cluster's founding record.
C25_MergeEntryNamesFounding ==
    \A i \in MergeEntries :
        /\ ReasonNamesMatchedKey(log[i], processed[i])
        /\ MergedInto(i)
        /\ log[i].matched_with_db = Founding(log[i].cluster_id).source_db
        /\ log[i].matched_with_title
               = Founding(log[i].cluster_id).title_original

\* C25: every MERGE entry names the matched key, the target cluster, the
\* source of the cluster's founding record and the first 100 characters of
\* the founding record's title.
C25_MergeEntryNamesFoundingHead ==
    \A i \in MergeEntries :
        /\ ReasonNamesMatchedKey(log[i], processed[i])
        /\ MergedInto(i)
        /\ log[i].matched_with_db = Founding(log[i].cluster_id).source_db
        /\ log[i].matched_with_title
               = FirstCharacters(Founding(log[i].cluster_id).title_original,
                                 100)
        /\ Len(log[i].matched_with_title) <= 100
        /\ Len(Founding(log[i].cluster_id).title_original) <= 100
               => log[i].matched_with_title
                      = Founding(log[i].cluster_id).title_original

\* A record merged on a key that a non-founding member registered, into a
\* cluster whose founding record has another source and another title.
C25_Witness ==
    \E i \in MergeEntries :
        \E k \in 2..Len(ClusterRecords(clusters, log[i].cluster_id)) :
            LET member == ClusterRecords(clusters, log[i].cluster_id)[k]
                first == Founding(log[i].cluster_id)
            IN  /\ member # processed[i]
                /\ log[i].reason.kind = "PMID match"
                /\ member.pmid = processed[i].pmid
                /\ first.pmid # processed[i].pmid
                /\ first.source_db # member.source_db
                /\ first.title_original # member.title_original


\* The cluster the record given to the last add_record is in: the one its
\* log entry names.
ClusterOfLast == log'[Len(log')].cluster_id

\* C26: after add_record(r), merged or founding, every non-empty key of r
\* is in its index; a key absent before maps to r's cluster, a key present
\* before keeps its cluster, even one that is not r's.
C26_KeysRegisteredFirstWriterWins ==
    [][ ret'.op = "add_record" /\ Len(processed') = Len(processed) + 1 =>
          LET r == processed'[Len(processed')]
              members == ClusterRecords(clusters', ClusterOfLast)
          IN  /\ members[Len(members)] = r
              /\ \A t \in KeyTypes :
                    KeyOf(r, t) # <<>> =>
                       /\ KeyOf(r, t) \in DOMAIN IndexOf(t)'
                       /\ KeyOf(r, t) \notin DOMAIN IndexOf(t) =>
                              IndexOf(t)'[KeyOf(r, t)] = ClusterOfLast
                       /\ KeyOf(r, t) \in DOMAIN IndexOf(t) =>
                              IndexOf(t)'[KeyOf(r, t)]
                                  = IndexOf(t)[KeyOf(r, t)]
    ]_vars

\* A record merged into one cluster on its DOI has registered a new PMID
\* there while its title stays mapped to another cluster.
C26_Witness ==
    /\ Len(log) > 0
    /\ log[Len(log)].action = "MERGE"
    /\ LET r == processed[Len(processed)]
           cid == log[Len(log)].cluster_id
       IN  /\ r.pmid # <<>>
           /\ Get(pmid_index, r.pmid) = cid
           /\ \A i \in 1..(Len(processed) - 1) : processed[i].pmid # r.pmid
           /\ r.title_normalized # <<>>
           /\ Get(title_index, r.title_normalized) # cid


\* The record's DOI is indexed to cluster a and its key of a lower
\* priority t to another cluster b.
Conflicting(r, a, t, b) ==
    /\ r.doi_normalized \in DOMAIN doi_index
    /\ r.doi_normalized # <<>>
    /\ doi_index[r.doi_normalized] = a
    /\ t \in KeyTypes \ {1}
    /\ KeyOf(r, t) # <<>>
    /\ KeyOf(r, t) \in DOMAIN IndexOf(t)
    /\ IndexOf(t)[KeyOf(r, t)] = b
    /\ a # b

\* C27: a record whose DOI is indexed to cluster A and whose title, PMID or
\* arXiv ID is indexed to another cluster B is appended to A only: B's
\* members are unchanged, A and B stay two clusters, and the lower-priority
\* key still maps to B.
C27_ConflictingRecordJoinsDoiCluster ==
    [][ ret'.op = "add_record" /\ Len(processed') = Len(processed) + 1 =>
          LET r == processed'[Len(processed')]
          IN  \A a, b \in ClusterIds(clusters) : \A t \in KeyTypes :
                  Conflicting(r, a, t, b) =>
                      /\ ClusterRecords(clusters', a)
                             = Append(ClusterRecords(clusters, a), r)
                      /\ ClusterRecords(clusters', b)
                             = ClusterRecords(clusters, b)
                      /\ ClusterIds(clusters') = ClusterIds(clusters)
                      /\ Len(clusters') = Len(clusters)
                      /\ IndexOf(t)'[KeyOf(r, t)] = b
    ]_vars

\* The last record was merged on its DOI while its PMID is indexed to
\* another cluster, which it did not join.
C27_Witness ==
    /\ Len(log) > 0
    /\ log[Len(log)].action = "MERGE"
    /\ log[Len(log)].reason.kind = "DOI match"
    /\ LET r == processed[Len(processed)]
           a == log[Len(log)].cluster_id
       IN  /\ r.pmid # <<>>
           /\ Get(pmid_index, r.pmid) \notin {a, None}
           /\ \A k \in 1..Len(ClusterRecords(clusters, Get(pmid_index, r.pmid))) :
                 ClusterRecords(clusters, Get(pmid_index, r.pmid))[k] # r
           /\ \E i \in 1..(Len(processed) - 1) : processed[i].pmid = r.pmid


\* A step that is a call of one of the two post-passes.
PostPassCall == ret'.op \in {"resolve_preprints", "get_deduplicated_records"}

\* The orders of the sets shown so far stay as they are.
OrdersKept ==
    \A q \in DOMAIN set_order : q \in DOMAIN set_order' /\ set_order'[q] = set_order[q]

\* C28: a call of resolve_preprints or of get_deduplicated_records, after
\* any calls of the two in any order, leaves the cluster table with its
\* member order, the four indexes, the log and the counter as they were, and
\* returns what the last call of the same method returned: the result is
\* what the unchanged state and the process's set orders, which never
\* change once shown, determine.
C28_PostPassesReadOnly ==
    [][ PostPassCall =>
          /\ clusters' = clusters
          /\ doi_index' = doi_index /\ pmid_index' = pmid_index
          /\ arxiv_index' = arxiv_index /\ title_index' = title_index
          /\ log' = log
          /\ next_cluster_id' = next_cluster_id
          /\ ret.op = ret'.op => ret'.value = ret.value
          /\ OrdersKept
          /\ ret'.op = "resolve_preprints" =>
                 ret'.value = ResolvePreprints(clusters')
          /\ ret'.op = "get_deduplicated_records" =>
                 /\ BuiltSets(clusters') \subseteq DOMAIN set_order'
                 /\ ret'.value = DeduplicatedRecords(set_order', clusters')
    ]_vars

\* get_deduplicated_records has returned for an engine holding a cluster
\* with two distinct DOIs, whose order the process has fixed, and for which
\* resolve_preprints reports a link.
C28_Witness ==
    /\ ret.op = "get_deduplicated_records"
    /\ BuiltSets(clusters) # {}
    /\ BuiltSets(clusters) \subseteq DOMAIN set_order
    /\ ResolvePreprints(clusters) # <<>>
    /\ \E k \in 1..Len(ret.value) : Len(ret.value[k].all_dois) > 1

\* The exclusion step has run, not as a dry run, with at least one record
\* still without an abstract.
Excluding ==
    /\ enrichment.pc = "done"
    /\ ~enrichment.dry_run
    /\ \E i \in 1..Len(enrichment.records) :
          Len(Strip(enrichment.records[i].abstract)) <= 10

\* The kept set is the records file as rewritten, the excluded set the
\* excluded file.
Kept == enrichment.on_disk

Excluded == enrichment.excluded_file

\* How many records of a list carry the cluster id of an input record.
Occurrences(list, input) ==
    Cardinality({k \in 1..Len(list) : list[k].cluster_id = input.cluster_id})

\* C23: after the exclusion step of a run that is not a dry run and has at
\* least one record still missing, every input record is in exactly one of
\* the kept and the excluded set, every kept record has a stripped abstract
\* longer than 10 characters, no excluded record has, and the two sets
\* together count the total.
C23_ExclusionPartitions ==
    Excluding =>
        /\ enrichment.records_written /\ enrichment.excluded_written
        /\ \A i \in 1..Len(enrichment.input) :
              Occurrences(Kept, enrichment.input[i])
              + Occurrences(Excluded, enrichment.input[i]) = 1
        /\ \A k \in 1..Len(Kept) : Len(Strip(Kept[k].abstract)) > 10
        /\ \A k \in 1..Len(Excluded) : Len(Strip(Excluded[k].abstract)) <= 10
        /\ Len(Kept) + Len(Excluded) = Len(enrichment.input)

\* A run that fetched an abstract for one record, kept it, and excluded
\* another whose abstract is eleven characters long but shorter stripped.
C23_Witness ==
    /\ Excluding
    /\ \E k \in 1..Len(Kept) : Kept[k].abstract_source # "absent"
    /\ \E k \in 1..Len(Excluded) : Len(Excluded[k].abstract) > 10


\* C24: a dry run modifies no record: the records in memory stay as loaded
\* (no abstract and no abstract_source written, none removed), and neither
\* the records file nor the excluded file is written.
C24_DryRunModifiesNothing ==
    enrichment.pc # "idle" /\ enrichment.dry_run =>
        /\ enrichment.records = enrichment.input
        /\ enrichment.on_disk = enrichment.input
        /\ ~enrichment.records_written
        /\ ~enrichment.excluded_written
        /\ enrichment.excluded_file = <<>>

\* A finished dry run that found an abstract and still would exclude a
\* record.
C24_Witness ==
    /\ enrichment.pc = "done"
    /\ enrichment.dry_run
    /\ enrichment.log.enriched > 0
    /\ enrichment.log.excluded_no_abstract > 0


\* ------------------------------------------------------------------------
\* main() of the deduplication script
\* ------------------------------------------------------------------------

\* The place of a source in the order pubmed, scopus, semantic_scholar,
\* biorxiv_medrxiv, springernature, arxiv, google_scholar.
FeedRank(source_db) ==
    CASE source_db = "pubmed" -> 1
      [] source_db = "scopus" -> 2
      [] source_db = "semantic_scholar" -> 3
      [] source_db = "biorxiv_medrxiv" -> 4
      [] source_db = "springernature" -> 5
      [] source_db = "arxiv" -> 6
      [] source_db = "google_scholar" -> 7

\* The records of one source in a list, in the list's order.
FromSource(list, source_db) ==
    SelectSeq(list, LAMBDA r : r.source_db = source_db)

Sources == {"pubmed", "scopus", "semantic_scholar", "biorxiv_medrxiv",
            "springernature", "arxiv", "google_scholar"}

\* main() has fed the engine and taken the results.
Fed == loaded.pc = "loaded" /\ ret.op \in {"get_deduplicated_records",
                                           "resolve_preprints"}

\* C30: main feeds the engine the loaded records grouped by source in the
\* order pubmed, scopus, semantic_scholar, biorxiv_medrxiv, springernature,
\* arxiv, google_scholar and in file order within a source; when it takes
\* the results every loaded record has been fed exactly once and the log
\* has as many entries as records were loaded.
C30_FedOnceInSourceOrder ==
    loaded.pc = "loaded" =>
        /\ \A i, j \in 1..Len(processed) :
              i < j => FeedRank(processed[i].source_db)
                           <= FeedRank(processed[j].source_db)
        /\ \A source_db \in Sources :
              IsPrefix(FromSource(processed, source_db),
                       FromSource(loaded.all_records, source_db))
        /\ \A i \in 1..Len(processed) : processed[i].source_db \in Sources
        /\ Len(log) = Len(processed)
        /\ Fed =>
              /\ \A source_db \in Sources :
                    FromSource(processed, source_db)
                        = FromSource(loaded.all_records, source_db)
              /\ Len(processed) = Len(loaded.all_records)
              /\ Len(log) = loaded.total_raw

\* main() has fed an arXiv record loaded before a bioRxiv record after it,
\* and two records of one source in their file order.
C30_Witness ==
    /\ Fed
    /\ processed # loaded.all_records
    /\ \E i, j \in 1..Len(loaded.all_records) :
          /\ i < j
          /\ loaded.all_records[i].source_db = "arxiv"
          /\ loaded.all_records[j].source_db = "biorxiv_medrxiv"
    /\ \E i \in 1..(Len(processed) - 1) :
          /\ processed[i].source_db = processed[i + 1].source_db
          /\ processed[i] # processed[i + 1]

\* ------------------------------------------------------------------------
\* C31: the order of the strategies
\* ------------------------------------------------------------------------

StrategyOrder == <<"s2_doi", "crossref", "pubmed", "s2_title">>

\* The place of a strategy in the order S2 by DOI, CrossRef by DOI, PubMed
\* by PMID, S2 by title.
StrategyRank(name) ==
    CHOOSE k \in 1..Len(StrategyOrder) : StrategyOrder[k] = name

\* The record the k-th iteration of the fetch loop worked on, as loaded.
Fetched(k) == enrichment.input[enrichment.fetch_list[k]]

\* C31: for every record the fetch loop has worked on, the strategies
\* called are called in the order S2 by DOI, CrossRef by DOI, PubMed by
\* PMID, S2 by title; the DOI strategies are called only for a record with
\* a DOI, the PMID strategy only for one with a PMID, the title strategy
\* only for one with a title and neither DOI nor PMID; no strategy is
\* called after one returned an abstract, so the source logged is the last
\* strategy called, or None when none returned an abstract; and outside a
\* dry run the record's abstract_source is that source.
C31_StrategiesInFixedOrder ==
    enrichment.pc # "idle" =>
        \A k \in 1..Len(enrichment.calls) :
            LET called == enrichment.calls[k]
                rec == Fetched(k)
                detail == enrichment.log.details[k]
                now == enrichment.records[enrichment.fetch_list[k]]
            IN  /\ \A i, j \in 1..Len(called) :
                      i < j => StrategyRank(called[i]) < StrategyRank(called[j])
                /\ \A i \in 1..Len(called) :
                      /\ called[i] \in {"s2_doi", "crossref"}
                            => Strip(rec.doi) # <<>>
                      /\ called[i] = "pubmed" => Strip(rec.pmid) # <<>>
                      /\ called[i] = "s2_title"
                            => /\ Strip(rec.doi) = <<>>
                               /\ Strip(rec.pmid) = <<>>
                               /\ Strip(rec.title) # <<>>
                /\ detail.source_api # "None"
                      => /\ called # <<>>
                         /\ detail.source_api = called[Len(called)]
                         /\ detail.abstract_len > 0
                /\ detail.source_api = "None" => detail.abstract_len = 0
                /\ (detail.source_api # "None" /\ ~enrichment.dry_run)
                      => now.abstract_source = detail.source_api
                /\ (detail.source_api = "None" \/ enrichment.dry_run)
                      => now.abstract_source = "absent"

\* A record with a DOI and a PMID got its abstract from PubMed after both
\* DOI strategies returned none, and a record with only a title was looked
\* up by title, outside a dry run.
C31_Witness ==
    /\ enrichment.pc = "done"
    /\ ~enrichment.dry_run
    /\ \E k \in 1..Len(enrichment.calls) :
          /\ enrichment.calls[k] = <<"s2_doi", "crossref", "pubmed">>
          /\ enrichment.records[enrichment.fetch_list[k]].abstract_source
                = "pubmed"
    /\ \E k \in 1..Len(enrichment.calls) :
          enrichment.calls[k] = <<"s2_title">>

\* ------------------------------------------------------------------------
\* C39: enriched records and has_abstract
\* ------------------------------------------------------------------------

\* The k-th iteration of the fetch loop counted its record as enriched
\* and wrote the abstract to it.
EnrichedAt(k) ==
    /\ enrichment.log.details[k].source_api # "None"
    /\ ~enrichment.dry_run

\* C39: every record the fetch loop counted as enriched and wrote an
\* abstract to satisfies has_abstract afterwards, and is not among the
\* records the run excludes.
C39_EnrichedHaveAbstract ==
    enrichment.pc # "idle" =>
        \A k \in 1..Len(enrichment.calls) :
            EnrichedAt(k) =>
                LET now == enrichment.records[enrichment.fetch_list[k]]
                IN  /\ has_abstract(now)
                    /\ \A i \in 1..Len(enrichment.excluded_file) :
                          enrichment.excluded_file[i].cluster_id
                              # now.cluster_id

\* ------------------------------------------------------------------------
\* C32: retry_request of the search script
\* ------------------------------------------------------------------------

\* The outcomes of the requests a call has made, in order.
OutcomeAt(n) == retry.trace[n].outcome

\* The call is over: it returned or an exception left it.
RetryRequestOver == retry.status \in {"returned", "raised"}

\* What holds at every moment of a call of retry_request: it has made at
\* most max_retries requests; only the last request can be answered 200,
\* and the call then returns that response; the attempt after attempt k is
\* made only after a wait of delay * 2^k; a call all of whose max_retries
\* requests were answered 429 returns None; and the exception leaves the
\* call exactly when the last of max_retries requests failed with one.
RetryRequestBounded ==
    /\ retry.status \in {"running", "returned", "raised"}
    /\ retry.requests <= retry.max_retries
    /\ retry.requests = Len(retry.trace)
    /\ \A n \in 1..Len(retry.trace) :
           /\ retry.trace[n].attempt = n - 1
           /\ OutcomeAt(n) = "200"
                  => /\ n = Len(retry.trace)
                     /\ retry.status = "returned"
                     /\ retry.result = "response"
           /\ n < Len(retry.trace)
                  => retry.trace[n].wait = retry.delay * (2 ^ (n - 1))
    /\ (/\ RetryRequestOver
        /\ \A n \in 1..Len(retry.trace) : OutcomeAt(n) = "429")
           => /\ retry.status = "returned"
              /\ retry.result = "None"
              /\ retry.requests = retry.max_retries
    /\ retry.status = "raised"
           <=> /\ RetryRequestOver
               /\ retry.requests = retry.max_retries
               /\ retry.requests > 0
               /\ OutcomeAt(retry.requests) \notin {"200", "429"}
    /\ retry.status = "raised" => retry.result = "RequestException"

\* C32: retry_request makes at most max_retries requests and then is over,
\* whatever the requests come to; it returns the first successful response;
\* it returns None when every attempt was answered 429; the exception of
\* the last attempt leaves the call; and before the attempt after attempt k
\* it waits delay * 2^k.
C32_RetryRequestBoundedAndOver ==
    []RetryRequestBounded /\ <>RetryRequestOver

\* A call with max_retries 3 raised after a 429, a failed request and
\* another failed request, having waited delay and twice delay.
C32_Witness ==
    /\ retry.status = "raised"
    /\ retry.max_retries = 3
    /\ retry.requests = 3
    /\ OutcomeAt(1) = "429"
    /\ OutcomeAt(2) = "RequestException"
    /\ OutcomeAt(3) = "500"
    /\ retry.trace[1].wait = retry.delay
    /\ retry.trace[2].wait = 2 * retry.delay

\* ------------------------------------------------------------------------
\* C33: one DOI, one cluster
\* ------------------------------------------------------------------------

\* The i-th and the j-th processed record carry the same non-empty
\* normalized DOI.
SameDoi(i, j) ==
    /\ processed[i].doi_normalized # <<>>
    /\ processed[i].doi_normalized = processed[j].doi_normalized

\* C33: any two processed records with the same non-empty normalized DOI
\* are in the same cluster, whatever the records and the order they were
\* processed in; the DOI is indexed to that cluster.
C33_SameDoiSameCluster ==
    \A i, j \in Positions :
        SameDoi(i, j) =>
            /\ ClusterOf(i) = ClusterOf(j)
            /\ Get(doi_index, processed[i].doi_normalized) = ClusterOf(i)
            /\ \E k \in 1..Len(ClusterRecords(clusters, ClusterOf(i))) :
                  ClusterRecords(clusters, ClusterOf(i))[k] = processed[i]
            /\ \E k \in 1..Len(ClusterRecords(clusters, ClusterOf(i))) :
                  ClusterRecords(clusters, ClusterOf(i))[k] = processed[j]

\* Two records with one DOI are in one cluster although the later one
\* carries a PMID that an earlier record of another cluster registered.
C33_Witness ==
    \E i, j, k \in Positions :
        /\ i < j
        /\ SameDoi(i, j)
        /\ k < j
        /\ processed[k].pmid # <<>>
        /\ processed[k].pmid = processed[j].pmid
        /\ ClusterOf(k) # ClusterOf(j)
        /\ ClusterOf(i) = ClusterOf(j)

\* ------------------------------------------------------------------------
\* C34: what the index entries refer to
\* ------------------------------------------------------------------------

\* The positions of the processed records that carry the key in the field
\* of type t.
Carriers(t, key) == {i \in Positions : KeyOf(processed[i], t) = key}

\* The first processed record that carries the key.
FirstCarrier(t, key) ==
    CHOOSE i \in Carriers(t, key) : \A j \in Carriers(t, key) : i <= j

\* C34: every key of each of the four indexes is mapped to the id of a
\* cluster of the table, some processed record carries the key in the
\* index's field, and the first such record is a member of that cluster.
C34_IndexEntriesReferToFirstCarrier ==
    \A t \in KeyTypes : \A key \in DOMAIN IndexOf(t) :
        LET cid == IndexOf(t)[key]
        IN  /\ cid \in ClusterIds(clusters)
            /\ Carriers(t, key) # {}
            /\ ClusterOf(FirstCarrier(t, key)) = cid
            /\ \E k \in 1..Len(ClusterRecords(clusters, cid)) :
                  ClusterRecords(clusters, cid)[k]
                      = processed[FirstCarrier(t, key)]

\* A PMID is mapped to the cluster of the first record that carried it
\* while a later record carrying it was merged into another cluster.
C34_Witness ==
    \E i, j \in Positions :
        /\ i < j
        /\ SharesKey(i, j, 2)
        /\ FirstCarrier(2, processed[i].pmid) = i
        /\ Get(pmid_index, processed[i].pmid) = ClusterOf(i)
        /\ ClusterOf(j) # ClusterOf(i)
        /\ log[j].action = "MERGE"

\* ------------------------------------------------------------------------
\* C35: no merge without a shared key
\* ------------------------------------------------------------------------

\* Records a and b carry the same non-empty key of some type.
ShareSomeKey(a, b) ==
    \E t \in KeyTypes : KeyOf(a, t) # <<>> /\ KeyOf(a, t) = KeyOf(b, t)

\* C35: every member of a cluster but the founding one shares a non-empty
\* key of the same type (normalized DOI, PMID, normalized arXiv ID or
\* normalized title) with a member added to the cluster before it.
C35_MembersShareKeyWithEarlierMember ==
    \A c \in 1..Len(clusters) :
        \A m \in 2..Len(clusters[c].records) :
            \E n \in 1..(m - 1) :
                ShareSomeKey(clusters[c].records[m], clusters[c].records[n])

\* A cluster of three members whose third shares no key with the founding
\* member: it was merged on a key the second member brought.
C35_Witness ==
    \E c \in 1..Len(clusters) :
        /\ Len(clusters[c].records) = 3
        /\ ~ShareSomeKey(clusters[c].records[3], clusters[c].records[1])
        /\ ShareSomeKey(clusters[c].records[3], clusters[c].records[2])

\* ------------------------------------------------------------------------
\* C36: the clusters partition the processed records
\* ------------------------------------------------------------------------

\* The sum of the numbers of a list.
RECURSIVE SumOf(_)
SumOf(numbers) ==
    IF numbers = <<>> THEN 0 ELSE numbers[1] + SumOf(Tail(numbers))

\* The number of NEW entries of the log.
NewEntries == Cardinality({i \in 1..Len(log) : log[i].action = "NEW"})

\* C36: after n add_record calls every processed record is a member of
\* exactly one cluster: each cluster's members are the records the log
\* puts in it, in order, and every log entry names a cluster of the table;
\* the cluster sizes, and the duplicate_count values of the output, sum to
\* n; the cluster ids are exactly 0..k-1 with k the number of NEW log
\* entries, no id is used twice, and next_cluster_id is k.
C36_ClustersPartitionProcessed ==
    /\ Len(log) = Len(processed)
    /\ \A i \in Positions : ClusterOf(i) \in ClusterIds(clusters)
    /\ \A c \in 1..Len(clusters) :
           clusters[c].records = LoggedMembers(clusters[c].cid, Len(log))
    /\ SumOf([c \in 1..Len(clusters) |-> Len(clusters[c].records)])
           = Len(processed)
    /\ ClusterIds(clusters) = 0..(NewEntries - 1)
    /\ Len(clusters) = NewEntries
    /\ next_cluster_id = NewEntries
    /\ ret.op = "get_deduplicated_records"
           => /\ Len(ret.value) = NewEntries
              /\ SumOf([k \in 1..Len(ret.value) |->
                           ret.value[k].duplicate_count])
                     = Len(processed)

\* Three records were processed into a cluster of two and a cluster of
\* one, the merged record being the last, and the output was taken.
C36_Witness ==
    /\ Len(processed) = 3
    /\ NewEntries = 2
    /\ log[3].action = "MERGE"
    /\ ClusterOf(3) = 0
    /\ ret.op = "get_deduplicated_records"
    /\ \E k \in 1..Len(ret.value) : ret.value[k].duplicate_count = 2

\* ------------------------------------------------------------------------
\* C37: the summary statistics
\* ------------------------------------------------------------------------

\* The sum of the values of a function with a finite domain.
RECURSIVE SumOver(_)
SumOver(counts) ==
    IF DOMAIN counts = {} THEN 0
    ELSE LET key == CHOOSE k \in DOMAIN counts : TRUE
         IN  counts[key]
                 + SumOver([k \in DOMAIN counts \ {key} |-> counts[k]])

\* C37: in the summary statistics the four per-reason merge counts (DOI
\* match, PMID match, arXiv ID match, Exact title match) sum to the number
\* of MERGE log entries, which is duplicates_removed, the total input count
\* minus the unique count; and the source-distribution counts sum to the
\* unique count.
C37_SummaryCountsAddUp ==
    (loaded.pc = "loaded" /\ loaded.summary.status = "printed") =>
        LET summary == loaded.summary
        IN  /\ SumOver(summary.merge_reasons) = Cardinality(MergeEntries)
            /\ Cardinality(MergeEntries) = summary.n_duplicates
            /\ summary.n_duplicates = loaded.total_raw - summary.n_unique
            /\ summary.total_raw = Len(loaded.all_records)
            /\ summary.n_unique = Len(clusters)
            /\ SumOver(summary.source_distribution) = summary.n_unique

\* The summary of a run over three records with one merge on a title: two
\* unique records, one of them found by two databases.
C37_Witness ==
    /\ loaded.pc = "loaded"
    /\ loaded.summary.status = "printed"
    /\ loaded.total_raw = 3
    /\ loaded.summary.n_duplicates = 1
    /\ loaded.summary.merge_reasons["Exact title match"] = 1
    /\ DOMAIN loaded.summary.source_distribution = {1, 2}

\* ------------------------------------------------------------------------
\* C38: the two post-passes on preprint and published DOIs
\* ------------------------------------------------------------------------

\* resolve_preprints is called right after get_deduplicated_records, as
\* main() does.
ResolvedAfterDeduplicated ==
    ret.op = "get_deduplicated_records" /\ ret'.op = "resolve_preprints"

\* C38: for every cluster, the record get_deduplicated_records returns for
\* it has a non-empty preprint_doi if and only if resolve_preprints emits a
\* link for the cluster.
C38_PostPassesAgree ==
    [][ ResolvedAfterDeduplicated =>
          \A k \in 1..Len(ret.value) :
              ret.value[k].preprint_doi # <<>>
                  <=> \E l \in 1..Len(ret'.value) :
                          ret'.value[l].cluster_id = ret.value[k].cluster_id
    ]_vars

=============================================================================
